---- MODULE Spec2Model ----
(***************************************************************************)
(* A model of the symbolic encoder of mlir-tv (encode.cpp).                *)
(*                                                                         *)
(* Symbolic terms are modelled by their denotation:                        *)
(*   - an Index / Integer expression is a bit-vector value, a Float        *)
(*     expression is a term of the free algebra (a string), so two floats  *)
(*     are equal exactly when their abstract terms are equal;              *)
(*   - an expression with free induction variables (inside a loop body)    *)
(*     is a function from the valuations of these variables to values;     *)
(*   - a Tensor is its dims and a total function from index tuples to      *)
(*     values; a symbolic dimension is a value chosen in Init.             *)
(***************************************************************************)
EXTENDS Integers, Sequences, FiniteSets, TLC

\* ------------------------------------------------------------------ bounds
\* Width of an Index bit-vector in the model (Index::BITS in the program).
BITS == 3
\* Largest dimension of a function argument.
MaxDim == 2
\* The largest low / high padding of the pad_tensor programs.
MaxPad == 1
\* The largest value of new_var_idx when an encoding starts.
MaxPrior == 1

IdxMod == 2 ^ BITS
Idx == 0 .. (IdxMod - 1)
\* Bit-vector wrap-around of Index arithmetic.
BV(x) == x % IdxMod

Min2(a, b) == IF a < b THEN a ELSE b
Max2(a, b) == IF a < b THEN b ELSE a

\* mlir::ShapedType::kDynamicSize
kDynamicSize == -1

\* All index tuples of length n (the valuations of n bound variables).
Vals(n) == [1 .. n -> Idx]

\* ------------------------------------------------------------ float algebra
\* Float::add, Float::mul, Float::neg : abstract operations, modelled as the
\* constructors of the free term algebra.
fp_add(a, b) == "add(" \o a \o "," \o b \o ")"
fp_mul(a, b) == "mul(" \o a \o "," \o b \o ")"
fp_neg(a) == "neg(" \o a \o ")"

RECURSIVE JoinTerms(_)
JoinTerms(s) ==
  IF Len(s) = 0 THEN ""
  ELSE IF Len(s) = 1 THEN s[1]
  ELSE s[1] \o "," \o JoinTerms(Tail(s))

\* Tensor::sum over float elements: the abstract sum of the elements in
\* row-major order.
fp_sum(s) == "sum(" \o JoinTerms(s) \o ")"

\* The element of the function argument `name` at index tuple idx.
ArgElem(name, idx) == name \o ToString(idx)

\* --------------------------------------------------------------- values
\* A symbolic value: tag is one of Index, Integer, Float, Tensor, MemRef.
\* A scalar's f maps the valuations of the enclosing loop variables to the
\* value; a Tensor's f maps index tuples to elements.
MkScalar(tag, ety, f) ==
  [tag |-> tag, ety |-> ety, dims |-> <<>>, f |-> f, bid |-> 0]
MkTensor(ety, dims, f) ==
  [tag |-> "Tensor", ety |-> ety, dims |-> dims, f |-> f, bid |-> 0]
MkMemRef(ety, dims, bid) ==
  [tag |-> "MemRef", ety |-> ety, dims |-> dims, f |-> <<>>, bid |-> bid]

\* Tensor::get(indices): the element and the in-bounds predicate.
TensorGet(t, idx) ==
  [elem |-> t.f[idx],
   inb |-> \A i \in 1 .. Len(t.dims) : idx[i] < t.dims[i]]

TensorInBounds(t, idx) == \A i \in 1 .. Len(t.dims) : idx[i] < t.dims[i]

\* The in-bounds index tuples of a tensor.
InBoundsIdx(t) == {x \in Vals(Len(t.dims)) : TensorInBounds(t, x)}

\* listsEqual(a.getDims(), b.getDims())
listsEqual(a, b) ==
  /\ Len(a) = Len(b)
  /\ \A i \in 1 .. Len(a) : a[i] = b[i]

\* A tensor given as a function argument, with elements name[idx].
ArgIntTensor(dims, seed) ==
  MkTensor("i32", dims,
    [x \in Vals(Len(dims)) |->
       BV(seed + (IF Len(dims) > 0 THEN x[1] ELSE 0)
               + (IF Len(dims) > 1 THEN 3 * x[2] ELSE 0))])

ArgTensor(name, dims) ==
  MkTensor("f32", dims, [x \in Vals(Len(dims)) |-> ArgElem(name, x)])

\* ------------------------------------------------------------------ the IR
\* An affine expression: k is dim (position v), const (value v), sym, add or
\* mul (operands sub[1], sub[2]), or another kind (mod, floordiv, ...).
ADim(p) == [k |-> "dim", v |-> p, sub |-> <<>>]
AConst(c) == [k |-> "const", v |-> c, sub |-> <<>>]
AAdd(a, b) == [k |-> "add", v |-> 0, sub |-> <<a, b>>]
AMul(a, b) == [k |-> "mul", v |-> 0, sub |-> <<a, b>>]
\* An affine map (d0 .. d(nd-1)) -> (res[1], ..).
AMap(nd, res) == [nd |-> nd, res |-> res]
IdMap(n) == AMap(n, [i \in 1 .. n |-> ADim(i - 1)])

\* An operation.  res / args are IR value names; nin is the number of input
\* operands of a structured op; bargs / body are the block arguments and the
\* ops of its region; ints are integer attributes; mixed are lists of
\* OpFoldResults, each an IR value or an integer attribute.
MkOp(id, kind, res, args) ==
  [id |-> id, kind |-> kind, res |-> res, args |-> args, nin |-> 0,
   maps |-> <<>>, iters |-> <<>>, bargs |-> <<>>, body |-> <<>>,
   ints |-> <<>>, mixed |-> <<>>]

\* IR types: k is tensor, memref, f32, i32, index; shape lists the static
\* sizes, kDynamicSize for '?'; ety is the element type of a tensor.
TyTensorOf(shape, ety) == [k |-> "tensor", shape |-> shape, ety |-> ety]
TyTensor(shape) == TyTensorOf(shape, "f32")
\* A memref type: layout is empty for the identity layout and lists the
\* strides of a strided layout otherwise.
TyMemRefStrided(shape, strides) ==
  [k |-> "memref", shape |-> shape, layout |-> strides]
TyMemRef(shape) == TyMemRefStrided(shape, <<>>)
TyF32 == [k |-> "f32", shape |-> <<>>]
TyIndex == [k |-> "index", shape |-> <<>>]
TyI32 == [k |-> "i32", shape |-> <<>>]

\* ----------------------------------------------------------------- State
\* State::State : the state a fresh encoding starts from, given the
\* registers of the function arguments.
NewState(regs) ==
  [regs |-> regs,
   wd |-> [v \in Vals(0) |-> TRUE],
   wdOf |-> <<>>,
   retValues |-> <<>>,
   scopes |-> <<>>,
   hasConstArray |-> FALSE,
   hasQuantifier |-> FALSE,
   err |-> ""]

\* The valuations of the induction variables in scope.
FV(st) ==
  IF st.scopes = <<>> THEN Vals(0) ELSE Vals(Len(st.scopes[Len(st.scopes)].ub))

Fail(st, why) == IF st.err = "" THEN [st EXCEPT !.err = why] ELSE st

\* RegFile::add : binding a value twice is a contract violation.
RegAdd(st, id, val) ==
  IF st.err # "" THEN st
  ELSE IF id \in DOMAIN st.regs THEN Fail(st, "double-bind")
  ELSE [st EXCEPT !.regs = (id :> val) @@ st.regs]

IsBound(st, id) == id \in DOMAIN st.regs
\* RegFile::get<T> : the tag check of the typed accessor.
HasTag(st, id, tag) == IsBound(st, id) /\ st.regs[id].tag = tag

\* State::isOpWellDefined(op)
isOpWellDefined(st, opid) ==
  IF opid \in DOMAIN st.wdOf THEN st.wdOf[opid] ELSE [v \in FV(st) |-> TRUE]

\* State::wellDefined(op, pred) : conjoins pred (a predicate over the
\* valuations in scope) into wellDefinedPred and into the op's own record.
WellDefined(st, opid, pred) ==
  IF st.err # "" THEN st
  ELSE [st EXCEPT
          !.wd = [v \in FV(st) |-> st.wd[v] /\ pred[v]],
          !.wdOf = (opid :> [v \in FV(st) |->
                               isOpWellDefined(st, opid)[v] /\ pred[v]])
                   @@ st.wdOf]

\* A predicate that does not depend on the induction variables.
ConstPred(st, b) == [v \in FV(st) |-> b]

\* Tensor::elementwiseUnaryOp with the lambdas of tosa.negate:
\* (a.neg(), 0 - a).
elementwiseUnaryOp(a, ety) ==
  MkTensor(ety, a.dims,
           [x \in Vals(Len(a.dims)) |->
              IF ety = "f32" THEN fp_neg(a.f[x]) ELSE BV(0 - a.f[x])])

\* ---------------------------------------------------------------- Memory
\* A block: its 1-D size, its writable flag and its array.
MkBlock(size, writable, arr) ==
  [size |-> size, writable |-> writable, arr |-> arr]

\* Memory::addLocalBlock(size, writable) : the new block gets the next bid.
addLocalBlock(m, size, writable) ==
  Append(m, MkBlock(size, writable,
                    [i \in Idx |-> "blk" \o ToString(Len(m) + 1)
                                     \o ToString(<<i>>)]))

\* Memory::setWritable(bid, writable) : the flag is conjoined, never raised.
setWritable(m, bid, writable) ==
  [m EXCEPT ![bid].writable = m[bid].writable /\ writable]

\* What an encoder returns: the State and the shared Memory.
R(st, m) == [st |-> st, m |-> m]

\* ------------------------------------------------------------- variables
VARIABLES
  fn,         \* the function being encoded: its types and its block
  stk,        \* the encodeBlock activations: the State each works on, its
              \* block, its position and its hooks' captured variables
  m,          \* the Memory shared by every State of the encoding
  trace,      \* the hook and encoder calls made so far, in order
  status,     \* running, done, unsupported (UnsupportedException), crash
  failedOp,   \* the op carried by the UnsupportedException
  newVarIdx,  \* the static counter new_var_idx of init_tensor
  entryMem,   \* history: the Memory at the start of each activation of stk
  prev        \* history: the counter at the start of the first encoding and,
              \* once the function is encoded again, what the first encoding
              \* left

vars == <<fn, stk, m, trace, status, failedOp, newVarIdx, entryMem, prev>>

\* mlir::Value::getType()
Ty(id) == fn.ty[id]
\* max(ty.getRank(), 1)
Rank1(ty) == Max2(Len(ty.shape), 1)

\* Tensor::mkLambda(elemTy, dims, boundVars, body): body is given by its
\* value under each valuation of nvars variables, bvars lists the positions of
\* the bound variables among them; element x is body with bvars[j] := x[j].
mkLambda(ety, dims, bvars, nvars, body) ==
  MkTensor(ety, dims,
    [x \in Vals(Len(bvars)) |->
       body[[p \in 1 .. nvars |->
               IF \E j \in 1 .. Len(bvars) : bvars[j] = p
               THEN x[CHOOSE j \in 1 .. Len(bvars) : bvars[j] = p]
               ELSE 0]]])

\* The function f_float an encoder hands to encodeBinaryOp, applied:
\* "add" is a.add(b), "mul" is a.mul(b).
\* The pair of lambdas (f_float, f_int) handed to encodeBinaryOp is named by
\* the operation: add is (a.add(b), a + b), sub is (a.add(b.neg()), a - b),
\* mul is (a.mul(b), a * b).  An Integer is a bit-vector of BITS bits.
applyFloat(f, a, b) ==
  IF f = "add" THEN fp_add(a, b)
  ELSE IF f = "sub" THEN fp_add(a, fp_neg(b))
  ELSE fp_mul(a, b)
applyInt(f, a, b) ==
  IF f = "add" THEN BV(a + b)
  ELSE IF f = "sub" THEN BV(a - b)
  ELSE BV(a * b)

\* Tensor::elementwiseBinOp(b, elemty, f)
elementwiseBinOp(a, b, ety, f) ==
  MkTensor(ety, a.dims,
           [x \in Vals(Len(a.dims)) |->
              IF ety = "f32" THEN applyFloat(f, a.f[x], b.f[x])
              ELSE applyInt(f, a.f[x], b.f[x])])

\* The index list outVars applied to the bound variables x: entry 0 is the
\* constant izero, entry k > 0 is inVars[k - 1].
ApplyOutVars(outVars, x) ==
  [j \in 1 .. Len(outVars) |-> IF outVars[j] = 0 THEN 0 ELSE x[outVars[j]]]

\* getDimSize of broadcastTensors: a rank-0 type has the single size 1.
bcGetDimSize(ty, idx) == IF Len(ty.shape) = 0 THEN 1 ELSE ty.shape[idx + 1]

\* broadcastTensors(st, arg0, arg1).  ok = FALSE is nullopt.
broadcastTensors(st, arg0, arg1) ==
  LET ty0 == Ty(arg0)
      ty1 == Ty(arg1)
      t0 == st.regs[arg0]
      t1 == st.regs[arg1]
      ty0rank == Rank1(ty0)
      ty1rank == Rank1(ty1)
      resRank == Max2(ty0rank, ty1rank)
      minRank == Min2(ty0rank, ty1rank)
      \* the loop variable i of the entry that ends at position j of the
      \* common part (each entry is inserted at the front)
      I(j) == minRank - j
      d1(i) == bcGetDimSize(ty0, ty0rank - 1 - i)
      d2(i) == bcGetDimSize(ty1, ty1rank - 1 - i)
      dyn0(i) == d1(i) = kDynamicSize
      dyn1(i) == d2(i) = kDynamicSize
      common0 == [j \in 1 .. minRank |->
                    IF dyn0(I(j)) /\ dyn1(I(j))
                    THEN t0.dims[(ty0rank - 1 - I(j)) + 1]
                    ELSE Max2(d1(I(j)), d2(I(j)))]
      common1 == [j \in 1 .. minRank |->
                    IF dyn0(I(j)) /\ dyn1(I(j))
                    THEN t1.dims[(ty1rank - 1 - I(j)) + 1]
                    ELSE Max2(d1(I(j)), d2(I(j)))]
      cvars0 == [j \in 1 .. minRank |->
                   IF d1(I(j)) = 1 THEN 0 ELSE (ty0rank - 1 - I(j)) + 1]
      cvars1 == [j \in 1 .. minRank |->
                   IF d2(I(j)) = 1 THEN 0 ELSE (ty1rank - 1 - I(j)) + 1]
      diff == resRank - minRank
      \* the leading dims are those of the operand of higher rank
      lead == IF ty0rank < ty1rank
              THEN [i \in 1 .. diff |-> t1.dims[i]]
              ELSE [i \in 1 .. diff |-> t0.dims[i]]
      leadVars == [i \in 1 .. diff |-> i]
      resDims0 == lead \o common0
      resDims1 == lead \o common1
      outVars0 == IF ty1rank < ty0rank THEN leadVars \o cvars0 ELSE cvars0
      outVars1 == IF ty0rank < ty1rank THEN leadVars \o cvars1 ELSE cvars1
  IN
  IF \E i \in 0 .. minRank - 1 : dyn0(i) # dyn1(i)
  THEN [ok |-> FALSE, asserted |-> TRUE, t0 |-> t0, t1 |-> t1]
  ELSE
   [ok |-> TRUE,
    asserted |-> \A i \in 0 .. minRank - 1 :
                   d1(i) = 1 \/ d2(i) = 1 \/ d1(i) = d2(i),
    t0 |-> mkLambda(t0.ety, resDims0, [i \in 1 .. resRank |-> i], resRank,
                    [x \in Vals(resRank) |-> t0.f[ApplyOutVars(outVars0, x)]]),
    t1 |-> mkLambda(t1.ety, resDims1, [i \in 1 .. resRank |-> i], resRank,
                    [x \in Vals(resRank) |-> t1.f[ApplyOutVars(outVars1, x)]])]

\* An encodeBinaryOp that replaces wellDefinedPred by the op's own
\* condition instead of conjoining it.
encodeBinaryOp_reset(st, op, arg0, arg1, f_float) ==
  IF Ty(arg0).k = "f32" THEN
    RegAdd(st, op.res[1],
      MkScalar("Float", "f32",
        [v \in FV(st) |->
           applyFloat(f_float, st.regs[arg0].f[v], st.regs[arg1].f[v])]))
  ELSE
    LET bts == broadcastTensors(st, arg0, arg1)
        pred == ConstPred(st, listsEqual(bts.t0.dims, bts.t1.dims))
        st1 == RegAdd(st, op.res[1],
                 elementwiseBinOp(bts.t0, bts.t1, "f32", f_float))
    IN IF ~bts.ok THEN Fail(st, "unsupported")
       ELSE IF ~bts.asserted THEN Fail(st, "assert")
       ELSE [st1 EXCEPT !.wd = pred, !.wdOf = (op.id :> pred) @@ st1.wdOf]

\* encodeBinaryOp(st, op, arg0, arg1, f_float, f_int)
encodeBinaryOp(st, op, arg0, arg1, f_float) ==
  IF Ty(arg0).k = "f32" THEN
    IF ~HasTag(st, arg0, "Float") \/ ~HasTag(st, arg1, "Float")
    THEN Fail(st, "tag-mismatch")
    ELSE RegAdd(st, op.res[1],
           MkScalar("Float", "f32",
             [v \in FV(st) |->
                applyFloat(f_float, st.regs[arg0].f[v], st.regs[arg1].f[v])]))
  ELSE IF Ty(arg0).k = "tensor" THEN
    IF Ty(arg0).ety \notin {"f32", "i32"} THEN Fail(st, "unsupported")
    ELSE IF ~HasTag(st, arg0, "Tensor") \/ ~HasTag(st, arg1, "Tensor")
    THEN Fail(st, "tag-mismatch")
    ELSE
      LET bts == broadcastTensors(st, arg0, arg1) IN
      IF ~bts.ok THEN Fail(st, "unsupported")
      ELSE IF ~bts.asserted THEN Fail(st, "assert")
      ELSE
        LET st1 == RegAdd(st, op.res[1],
                     elementwiseBinOp(bts.t0, bts.t1, Ty(arg0).ety, f_float))
        IN WellDefined(st1, op.id,
             ConstPred(st, listsEqual(bts.t0.dims, bts.t1.dims)))
  ELSE Fail(st, "unsupported")

\* encodeOp<arith::AddFOp>
encodeOp_AddFOp(st, mm, op, memw) ==
  R(encodeBinaryOp(st, op, op.args[1], op.args[2], "add"), mm)

\* encodeOp<arith::MulFOp>
encodeOp_MulFOp(st, mm, op, memw) ==
  R(encodeBinaryOp(st, op, op.args[1], op.args[2], "mul"), mm)

\* encodeOp<tosa::AddOp>
\* encodeUnaryOp(st, op, arg, f_float, f_int) with the lambdas of tosa.negate
encodeUnaryOp(st, op, arg) ==
  IF Ty(arg).k = "f32" THEN
    IF ~HasTag(st, arg, "Float") THEN Fail(st, "tag-mismatch")
    ELSE RegAdd(st, op.res[1],
           MkScalar("Float", "f32",
             [v \in FV(st) |-> fp_neg(st.regs[arg].f[v])]))
  ELSE IF Ty(arg).k = "tensor" THEN
    IF Ty(arg).ety \notin {"f32", "i32"} THEN Fail(st, "unsupported")
    ELSE IF ~HasTag(st, arg, "Tensor") THEN Fail(st, "tag-mismatch")
    ELSE RegAdd(st, op.res[1], elementwiseUnaryOp(st.regs[arg], Ty(arg).ety))
  ELSE Fail(st, "unsupported")

\* A tosa.sub that hands the lambdas of tosa.add to encodeBinaryOp.
encodeOp_TosaSubOp_asAdd(st, mm, op, memw) ==
  IF Ty(op.args[1]).k # "tensor" \/ Ty(op.args[2]).k # "tensor"
  THEN R(Fail(st, "unsupported"), mm)
  ELSE R(encodeBinaryOp(st, op, op.args[1], op.args[2], "add"), mm)

\* encodeOp<tosa::SubOp>
encodeOp_TosaSubOp(st, mm, op, memw) ==
  IF Ty(op.args[1]).k # "tensor" \/ Ty(op.args[2]).k # "tensor"
  THEN R(Fail(st, "unsupported"), mm)
  ELSE R(encodeBinaryOp(st, op, op.args[1], op.args[2], "sub"), mm)

\* encodeOp<tosa::NegateOp> : a non-empty op.ints is its quantization_info.
encodeOp_TosaNegateOp(st, mm, op, memw) ==
  IF Ty(op.args[1]).k # "tensor" THEN R(Fail(st, "unsupported"), mm)
  ELSE IF op.ints # <<>> THEN R(Fail(st, "unsupported"), mm)
  ELSE R(encodeUnaryOp(st, op, op.args[1]), mm)

encodeOp_TosaAddOp(st, mm, op, memw) ==
  IF Ty(op.args[1]).k # "tensor" \/ Ty(op.args[2]).k # "tensor"
  THEN R(Fail(st, "unsupported"), mm)
  ELSE R(encodeBinaryOp(st, op, op.args[1], op.args[2], "add"), mm)

\* A return that latches its operands last to first.
encodeOp_ReturnOp_reversed(st, mm, op, memw) ==
  R([st EXCEPT !.retValues =
       @ \o [i \in 1 .. Len(op.args) |->
               st.regs[op.args[Len(op.args) + 1 - i]]]], mm)

\* encodeOp<ReturnOp>
encodeOp_ReturnOp(st, mm, op, memw) ==
  IF \E i \in 1 .. Len(op.args) : ~IsBound(st, op.args[i])
  THEN R(Fail(st, "unbound"), mm)
  ELSE R([st EXCEPT !.retValues =
            @ \o [i \in 1 .. Len(op.args) |-> st.regs[op.args[i]]]], mm)

\* encodeOp<arith::ConstantFloatOp> : the constant op.ints[1].
encodeOp_ConstantFloatOp(st, mm, op, memw) ==
  R(RegAdd(st, op.res[1],
      MkScalar("Float", "f32",
        [v \in FV(st) |-> "cst" \o ToString(op.ints[1])])), mm)

\* encodeOp<linalg::IndexOp>
encodeOp_IndexOp(st, mm, op, memw) ==
  IF op.ints[1] + 1 > Len(st.scopes[Len(st.scopes)].ub)
  THEN R(Fail(st, "assert"), mm)
  ELSE R(RegAdd(st, op.res[1],
           MkScalar("Index", "index", [v \in FV(st) |-> v[op.ints[1] + 1]])),
         mm)

\* encodeOp<tensor::ExtractOp>
encodeOp_ExtractOp(st, mm, op, memw) ==
  LET tid == op.args[1]
      n == Len(op.args) - 1
  IN
  IF ~HasTag(st, tid, "Tensor")
     \/ \E i \in 1 .. n : ~HasTag(st, op.args[i + 1], "Index")
  THEN R(Fail(st, "tag-mismatch"), mm)
  ELSE
    LET t == st.regs[tid]
        \* the zero-rank tensor case reads index 0
        indices(v) == IF n = 0 THEN <<0>>
                      ELSE [i \in 1 .. n |-> st.regs[op.args[i + 1]].f[v]]
        st1 == RegAdd(st, op.res[1],
                 MkScalar("Float", "f32",
                   [v \in FV(st) |-> TensorGet(t, indices(v)).elem]))
    IN R(WellDefined(st1, op.id,
           [v \in FV(st) |-> TensorGet(t, indices(v)).inb]), mm)

\* ------------------------------------------------------- affine helpers
RECURSIVE encodeAffineExpr(_, _, _)
\* encodeAffineExpr(ae, dimvars, symbolvars): r is "some" with the value v,
\* "none" for an unsupported expression, "assert" for a failed assertion.
encodeAffineExpr(ae, dimvars, symbolvars) ==
  IF ae.k \in {"add", "mul"} THEN
    LET lhs == encodeAffineExpr(ae.sub[1], dimvars, symbolvars)
        rhs == encodeAffineExpr(ae.sub[2], dimvars, symbolvars)
    IN IF lhs.r = "assert" \/ rhs.r = "assert" THEN [r |-> "assert", v |-> 0]
       ELSE IF lhs.r = "none" \/ rhs.r = "none" THEN [r |-> "none", v |-> 0]
       ELSE [r |-> "some",
             v |-> IF ae.k = "add" THEN BV(lhs.v + rhs.v) ELSE BV(lhs.v * rhs.v)]
  ELSE IF ae.k = "dim" THEN
    IF ae.v < Len(dimvars) THEN [r |-> "some", v |-> dimvars[ae.v + 1]]
    ELSE [r |-> "assert", v |-> 0]
  ELSE IF ae.k = "sym" THEN
    IF ae.v < Len(symbolvars) THEN [r |-> "some", v |-> symbolvars[ae.v + 1]]
    ELSE [r |-> "assert", v |-> 0]
  ELSE IF ae.k = "const" THEN
    IF ae.v < 0 THEN [r |-> "none", v |-> 0] ELSE [r |-> "some", v |-> BV(ae.v)]
  ELSE [r |-> "none", v |-> 0]

\* mlir::AffineMap::isIdentity
isIdentity(map) ==
  /\ Len(map.res) = map.nd
  /\ \A i \in 1 .. map.nd : map.res[i].k = "dim" /\ map.res[i].v = i - 1

\* mlir::AffineMap::isPermutation
isPermutation(map) ==
  /\ Len(map.res) = map.nd
  /\ \A i \in 1 .. map.nd : map.res[i].k = "dim" /\ map.res[i].v < map.nd
  /\ \A i, j \in 1 .. map.nd : i # j => map.res[i].v # map.res[j].v

\* doMap(input, map)
doMap(input, map) ==
  IF isIdentity(map) THEN input
  ELSE [i \in 1 .. Len(map.res) |-> input[map.res[i].v + 1]]

\* addOne(vec)
addOne(vec) == [i \in 1 .. Len(vec) |-> BV(vec[i] + 1)]

RECURSIVE Concat(_)
Concat(ss) == IF Len(ss) = 0 THEN <<>> ELSE ss[1] \o Concat(Tail(ss))

RECURSIVE Prod(_)
Prod(dims) == IF Len(dims) = 0 THEN 1 ELSE dims[1] * Prod(Tail(dims))

\* from1DIdx(k, dims): the index tuple at row-major position k.
from1DIdx(k, dims) ==
  [i \in 1 .. Len(dims) |->
     (k \div Prod(SubSeq(dims, i + 1, Len(dims)))) % dims[i]]

\* The in-bounds index tuples of a box, in row-major order.
RowMajor(dims) == [k \in 1 .. Prod(dims) |-> from1DIdx(k - 1, dims)]

\* LinalgOp::getLoopsToShapesMap : the results of all indexing maps.
LoopsToShapes(op) == Concat([k \in 1 .. Len(op.maps) |-> op.maps[k].res])

\* The dims of every operand of non-zero rank (inputs, then outputs).
ViewSizes(st, op) ==
  Concat([k \in 1 .. Len(op.args) |->
            LET r == Len(Ty(op.args[k]).shape) IN
            [i \in 1 .. r |-> st.regs[op.args[k]].dims[i]]])

\* findLoopBounds(st, op): the inclusive upper bound of every loop.
\* A findLoopBounds that takes the last matching position of an iterator.
findLoopBounds_lastMatch(st, op) ==
  LET viewSizes == ViewSizes(st, op)
      results == LoopsToShapes(op)
      Match(idx, pos) == results[idx].k = "dim" /\ results[idx].v = pos
      Last(pos) == CHOOSE idx \in 1 .. Len(results) :
                     /\ Match(idx, pos)
                     /\ \A j \in idx + 1 .. Len(results) : ~Match(j, pos)
  IN IF viewSizes = <<>> THEN <<0>>
     ELSE [k \in 1 .. op.maps[1].nd |-> BV(viewSizes[Last(k - 1)] - 1)]

findLoopBounds(st, op) ==
  LET viewSizes == ViewSizes(st, op)
      results == LoopsToShapes(op)
      numDims == op.maps[1].nd
      Match(idx, pos) == results[idx].k = "dim" /\ results[idx].v = pos
      First(pos) == CHOOSE idx \in 1 .. Len(results) :
                      /\ Match(idx, pos)
                      /\ \A j \in 1 .. idx - 1 : ~Match(j, pos)
  IN IF viewSizes = <<>> THEN <<0>>
     ELSE [k \in 1 .. numDims |-> BV(viewSizes[First(k - 1)] - 1)]

\* Whether findLoopBounds finds a dimension for every loop.
LoopBoundsFound(op) ==
  \/ \A k \in 1 .. Len(op.args) : Len(Ty(op.args[k]).shape) = 0
  \/ \A pos \in 0 .. op.maps[1].nd - 1 :
       \E idx \in 1 .. Len(LoopsToShapes(op)) :
          LoopsToShapes(op)[idx].k = "dim" /\ LoopsToShapes(op)[idx].v = pos

\* encodeUBForTensorShapeMatch(st, op, indVarBounds)
\* A shape match that also asks a zero-sized dimension to hold the index.
encodeUBForTensorShapeMatch_zeroChecked(st, op, indVarBounds) ==
  LET viewSizes == ViewSizes(st, op)
      results == LoopsToShapes(op)
      ae(idx) == encodeAffineExpr(results[idx], indVarBounds, <<>>)
  IN
  IF \E idx \in 1 .. Len(results) : ae(idx).r # "some"
  THEN Fail(st, "unsupported")
  ELSE WellDefined(st, op.id,
         ConstPred(st, \A idx \in 1 .. Len(results) :
            ae(idx).v < viewSizes[idx]))

encodeUBForTensorShapeMatch(st, op, indVarBounds) ==
  LET viewSizes == ViewSizes(st, op)
      results == LoopsToShapes(op)
      ae(idx) == encodeAffineExpr(results[idx], indVarBounds, <<>>)
  IN
  IF \E k \in 1 .. Len(op.args) :
       Len(Ty(op.args[k]).shape) # 0
       /\ ~HasTag(st, op.args[k], "Tensor") /\ ~HasTag(st, op.args[k], "MemRef")
  THEN Fail(st, "unsupported")
  ELSE IF \E idx \in 1 .. Len(results) : ae(idx).r = "assert"
  THEN Fail(st, "assert")
  ELSE IF \E idx \in 1 .. Len(results) : ae(idx).r = "none"
  THEN
    \* the obligations of the results before the unsupported one are
    \* already conjoined when the exception is thrown
    LET bad == CHOOSE idx \in 1 .. Len(results) :
                 ae(idx).r = "none" /\ \A j \in 1 .. idx - 1 : ae(j).r # "none"
    IN Fail(WellDefined(st, op.id,
              ConstPred(st, \A idx \in 1 .. bad - 1 :
                 viewSizes[idx] # 0 => ae(idx).v < viewSizes[idx])),
            "unsupported")
  ELSE WellDefined(st, op.id,
         ConstPred(st, \A idx \in 1 .. Len(results) :
            viewSizes[idx] # 0 => ae(idx).v < viewSizes[idx]))

\* An OpFoldResult: an IR value or an integer attribute.
MixedVal(id) == [isVal |-> TRUE, id |-> id, c |-> 0]
MixedAttr(c) == [isVal |-> FALSE, id |-> "", c |-> c]

\* getFromMixedOps<Index>(st, mixedOps)
getFromMixedOps(st, mixedOps) ==
  [i \in 1 .. Len(mixedOps) |->
     IF mixedOps[i].isVal THEN st.regs[mixedOps[i].id].f[<<>>]
     ELSE BV(mixedOps[i].c)]

\* The tag checks of getFromMixedOps<Index>.
MixedOpsTagged(st, mixedOps) ==
  \A i \in 1 .. Len(mixedOps) :
     mixedOps[i].isVal => HasTag(st, mixedOps[i].id, "Index")

\* to1DIdx(idx, dims): the row-major linear offset, in Index arithmetic.
RECURSIVE to1DIdx(_, _)
to1DIdx(idx, dims) ==
  IF Len(idx) = 0 THEN 0
  ELSE BV(idx[1] * Prod(Tail(dims)) + to1DIdx(Tail(idx), Tail(dims)))

\* MemRef::get(indices) for the identity layout: the element and the
\* in-bounds predicate.
MemRefGet(mm, mr, idx) ==
  [elem |-> mm[mr.bid].arr[to1DIdx(idx, mr.dims)],
   inb |-> \A i \in 1 .. Len(mr.dims) : idx[i] < mr.dims[i]]

\* `State newst = st; newst.linalgGenericScopes.push(LinalgGenericScope{ub})`
\* The copy sees every expression of st as one that does not depend on the
\* fresh induction variables.  (Loop ops are modelled in the function body,
\* where st has no variable in scope.)
\* A push that leaves two frames on the stack.
PushScope_twice(st, ub) ==
  LET lift(f) == [v \in Vals(Len(ub)) |-> f[<<>>]] IN
  [st EXCEPT
     !.scopes = Append(Append(@, [ub |-> ub]), [ub |-> ub]),
     !.wd = lift(st.wd),
     !.wdOf = [o \in DOMAIN st.wdOf |-> lift(st.wdOf[o])],
     !.regs = [id \in DOMAIN st.regs |->
                 IF st.regs[id].tag \in {"Tensor", "MemRef"} THEN st.regs[id]
                 ELSE [st.regs[id] EXCEPT !.f = lift(@)]]]

PushScope(st, ub) ==
  LET lift(f) == [v \in Vals(Len(ub)) |-> f[<<>>]] IN
  [st EXCEPT
     !.scopes = Append(@, [ub |-> ub]),
     !.wd = lift(st.wd),
     !.wdOf = [o \in DOMAIN st.wdOf |-> lift(st.wdOf[o])],
     !.regs = [id \in DOMAIN st.regs |->
                 IF st.regs[id].tag \in {"Tensor", "MemRef"} THEN st.regs[id]
                 ELSE [st.regs[id] EXCEPT !.f = lift(@)]]]

ScopeTop(st) == st.scopes[Len(st.scopes)]
\* The induction variables of the innermost scope, by position.
IndVars(st) == [i \in 1 .. Len(ScopeTop(st).ub) |-> i]

RECURSIVE initArgsFrom_firstArg(_, _, _, _, _)
\* An initInputStateForLoopBody that binds the first block argument for
\* every operand.
initArgsFrom_firstArg(st, mm, op, k, welldef) ==
  IF k > Len(op.args) \/ st.err # "" THEN [st |-> st, welldef |-> welldef]
  ELSE
    LET t == st.regs[op.args[k]]
        indexMap == op.maps[k]
        elem(v) == IF t.tag = "Tensor" /\ Len(indexMap.res) = 0
                   THEN t.f[<<0>>]
                   ELSE IF t.tag = "Tensor"
                   THEN t.f[[i \in 1 .. Len(indexMap.res) |->
                               encodeAffineExpr(indexMap.res[i], v, <<>>).v]]
                   ELSE IF t.tag = "Float" THEN t.f[v]
                   ELSE "opaque"
    IN initArgsFrom_firstArg(
         RegAdd(st, op.bargs[1],
                MkScalar("Float", "f32", [v \in FV(st) |-> elem(v)])),
         mm, op, k + 1, welldef)

RECURSIVE initArgsFrom_reversed(_, _, _, _, _)
\* An initInputStateForLoopBody that hands the operands to the block
\* arguments last to first, so that the first argument reads the output.
initArgsFrom_reversed(st, mm, op, k, welldef) ==
  IF k > Len(op.args) \/ st.err # "" THEN [st |-> st, welldef |-> welldef]
  ELSE
    LET t == st.regs[op.args[Len(op.args) + 1 - k]]
        indexMap == op.maps[Len(op.args) + 1 - k]
        elem(v) == IF t.tag = "Tensor" /\ Len(indexMap.res) = 0
                   THEN t.f[<<0>>]
                   ELSE IF t.tag = "Tensor"
                   THEN t.f[[i \in 1 .. Len(indexMap.res) |->
                               encodeAffineExpr(indexMap.res[i], v, <<>>).v]]
                   ELSE IF t.tag = "Float" THEN t.f[v]
                   ELSE "opaque"
    IN initArgsFrom_reversed(
         RegAdd(st, op.bargs[k],
                MkScalar("Float", "f32", [v \in FV(st) |-> elem(v)])),
         mm, op, k + 1, welldef)

RECURSIVE initArgsFrom(_, _, _, _, _)
\* The loop of initInputStateForLoopBody from operand k on.
initArgsFrom(st, mm, op, k, welldef) ==
  IF k > Len(op.args) \/ st.err # "" THEN [st |-> st, welldef |-> welldef]
  ELSE
    LET op_i == op.args[k]
        indexMap == op.maps[k]
        barg == op.bargs[k]
        nres == Len(indexMap.res)
        ae(i, v) == encodeAffineExpr(indexMap.res[i], v, <<>>)
        zero == [i \in 1 .. Len(ScopeTop(st).ub) |-> 0]
        affine(v) == [i \in 1 .. nres |-> ae(i, v).v]
        unsupp == \E i \in 1 .. nres : ae(i, zero).r = "none"
        asserted == \E i \in 1 .. nres : ae(i, zero).r = "assert"
    IN
    IF Ty(op_i).k = "f32" THEN
      IF ~HasTag(st, op_i, "Float")
      THEN [st |-> Fail(st, "tag-mismatch"), welldef |-> welldef]
      ELSE initArgsFrom(RegAdd(st, barg, st.regs[op_i]), mm, op, k + 1, welldef)
    ELSE IF Ty(op_i).k = "tensor" THEN
      IF ~HasTag(st, op_i, "Tensor")
      THEN [st |-> Fail(st, "tag-mismatch"), welldef |-> welldef]
      ELSE IF nres = 0 THEN
        initArgsFrom(
          RegAdd(st, barg, MkScalar("Float", "f32",
                   [v \in FV(st) |-> st.regs[op_i].f[<<0>>]])),
          mm, op, k + 1, welldef)
      ELSE IF asserted THEN [st |-> Fail(st, "assert"), welldef |-> welldef]
      ELSE IF unsupp THEN [st |-> Fail(st, "unsupported"), welldef |-> welldef]
      ELSE
        initArgsFrom(
          RegAdd(st, barg, MkScalar("Float", "f32",
                   [v \in FV(st) |-> st.regs[op_i].f[affine(v)]])),
          mm, op, k + 1, welldef)
    ELSE IF Ty(op_i).k = "memref" THEN
      IF ~HasTag(st, op_i, "MemRef")
      THEN [st |-> Fail(st, "tag-mismatch"), welldef |-> welldef]
      ELSE IF asserted THEN [st |-> Fail(st, "assert"), welldef |-> welldef]
      ELSE IF unsupp THEN [st |-> Fail(st, "unsupported"), welldef |-> welldef]
      ELSE
        initArgsFrom(
          RegAdd(st, barg, MkScalar("Float", "f32",
                   [v \in FV(st) |->
                      MemRefGet(mm, st.regs[op_i], affine(v)).elem])),
          mm, op, k + 1,
          [v \in FV(st) |->
             welldef[v] /\ MemRefGet(mm, st.regs[op_i], affine(v)).inb])
    ELSE [st |-> Fail(st, "unsupported"), welldef |-> welldef]

\* initInputStateForLoopBody(st, op, welldef, isParallelLoop)
initInputStateForLoopBody(st, mm, op, welldef) ==
  initArgsFrom(st, mm, op, 1, welldef)

\* The position in the block of the op defining value id; 0 for a value no
\* op of the block defines (a block argument, a value from outside).
DefiningOp(body, id) ==
  IF \E k \in 1 .. Len(body) : \E r \in 1 .. Len(body[k].res) : body[k].res[r] = id
  THEN CHOOSE k \in 1 .. Len(body) :
         \E r \in 1 .. Len(body[k].res) : body[k].res[r] = id
  ELSE 0

\* Matchers that take the accumulator for the summed operand.
reductionMatch_swapped(op) ==
  LET body == op.body
      lastarg == op.bargs[Len(op.bargs)]
      last == body[Len(body)]
      isYield == last.kind = "linalg.yield" /\ Len(last.args) = 1
      d == IF isYield THEN DefiningOp(body, last.args[1]) ELSE 0
      isAdd == d # 0 /\ body[d].kind \in {"arith.addf", "arith.addi"}
               /\ Len(body[d].args) = 2
  IN IF isAdd /\ body[d].args[1] = lastarg THEN [idx |-> 0, add |-> d]
     ELSE IF isAdd /\ body[d].args[2] = lastarg THEN [idx |-> 1, add |-> d]
     ELSE [idx |-> -1, add |-> 0]

\* Matchers that accept any binary op on the accumulator as the reduction.
reductionMatch_anyOp(op) ==
  LET body == op.body
      lastarg == op.bargs[Len(op.bargs)]
      last == body[Len(body)]
      isYield == last.kind = "linalg.yield" /\ Len(last.args) = 1
      d == IF isYield THEN DefiningOp(body, last.args[1]) ELSE 0
      isOp == d # 0 /\ Len(body[d].args) = 2
  IN IF isOp /\ body[d].args[1] = lastarg THEN [idx |-> 1, add |-> d]
     ELSE IF isOp /\ body[d].args[2] = lastarg THEN [idx |-> 0, add |-> d]
     ELSE [idx |-> -1, add |-> 0]

\* The matchers p1..p4 of encodeReductionLoopBodyAndOutput against the last
\* op of the block: idx is the operand of the add that is summed (%v),
\* -1 when no pattern matches.
reductionMatch(op) ==
  LET body == op.body
      lastarg == op.bargs[Len(op.bargs)]
      last == body[Len(body)]
      isYield == last.kind = "linalg.yield" /\ Len(last.args) = 1
      d == IF isYield THEN DefiningOp(body, last.args[1]) ELSE 0
      isAdd == d # 0 /\ body[d].kind \in {"arith.addf", "arith.addi"}
               /\ Len(body[d].args) = 2
  IN IF isAdd /\ body[d].args[1] = lastarg THEN [idx |-> 1, add |-> d]
     ELSE IF isAdd /\ body[d].args[2] = lastarg THEN [idx |-> 0, add |-> d]
     ELSE [idx |-> -1, add |-> 0]

\* LinalgOp::hasTensorSemantics / hasBufferSemantics
hasTensorSemantics(op) == \A k \in 1 .. Len(op.args) : Ty(op.args[k]).k # "memref"
hasBufferSemantics(op) ==
  op.res = <<>> /\ \A k \in 1 .. Len(op.args) : Ty(op.args[k]).k # "tensor"

\* An encodeBlock activation.  mode tells the hooks it was called with:
\* "top" (no hooks), "par" (the hooks of encodeParallelLoopBodyAndOutputs),
\* "red" (those of encodeReductionLoopBodyAndOutput); welldef, yielded,
\* instcount, lastarg and sumvar are the variables the hooks capture.
MkFrame(st, blk, mode, owner, memw, welldef, instcount, lastarg, sumvar) ==
  [st |-> st, blk |-> blk, index |-> -1, mode |-> mode, owner |-> owner,
   memw |-> memw, welldef |-> welldef, yielded |-> <<>>,
   instcount |-> instcount, lastarg |-> lastarg, sumvar |-> sumvar]

\* genericEnter choosing the parallel or the reduction form after the map of
\* the first output instead of the last indexing map.
genericEnter_ownMap(st, mm, op, memw) ==
  IF ~(hasTensorSemantics(op) \/ hasBufferSemantics(op)) THEN
    [st |-> Fail(st, "unsupported"), frame |-> <<>>]
  ELSE IF hasBufferSemantics(op) /\ ~memw THEN
    [st |-> Fail(st, "unsupported"), frame |-> <<>>]
  ELSE IF \E k \in 1 .. Len(op.bargs) : Ty(op.bargs[k]).k \notin {"f32", "i32"} THEN
    [st |-> Fail(st, "unsupported"), frame |-> <<>>]
  ELSE IF \E k \in 1 .. Len(op.iters) :
            op.iters[k] \notin {"parallel", "reduction", "window"} THEN
    [st |-> Fail(st, "unsupported"), frame |-> <<>>]
  ELSE IF \E k \in 1 .. Len(op.args) : ~IsBound(st, op.args[k]) THEN
    [st |-> Fail(st, "unbound"), frame |-> <<>>]
  ELSE IF ~LoopBoundsFound(op) THEN
    [st |-> Fail(st, "out-of-range"), frame |-> <<>>]
  ELSE
    LET loopBounds == findLoopBounds(st, op)
        st1 == encodeUBForTensorShapeMatch(st, op, loopBounds)
        newst0 == PushScope(st1, loopBounds)
        outputMap == op.maps[op.nin + 1]
        isParallelLoop == isPermutation(outputMap)
        init == initInputStateForLoopBody(newst0, mm, op,
                                          [v \in Vals(Len(loopBounds)) |-> TRUE])
        rm == reductionMatch(op)
        nout == Len(op.args) - op.nin
    IN
    IF st1.err # "" THEN [st |-> st1, frame |-> <<>>]
    ELSE IF init.st.err # "" THEN
      [st |-> Fail(st1, init.st.err), frame |-> <<>>]
    ELSE IF isParallelLoop THEN
      [st |-> st1,
       frame |-> MkFrame(init.st, op.body, "par", op.id, FALSE, init.welldef,
                         Len(op.body), "", "")]
    ELSE IF nout > 1 THEN [st |-> Fail(st1, "unsupported"), frame |-> <<>>]
    ELSE IF rm.idx = -1 THEN [st |-> Fail(st1, "unsupported"), frame |-> <<>>]
    ELSE
      [st |-> st1,
       frame |-> MkFrame(init.st, op.body, "red", op.id, FALSE, init.welldef,
                         Len(op.body), op.bargs[Len(op.bargs)],
                         op.body[rm.add].args[rm.idx + 1])]

\* encodeOp<linalg::GenericOp> up to the call of encodeBlock on the region:
\* st is the State of the op (err set when the encoder throws), frame the
\* activation that encodes the loop body.
genericEnter(st, mm, op, memw) ==
  IF ~(hasTensorSemantics(op) \/ hasBufferSemantics(op)) THEN
    [st |-> Fail(st, "unsupported"), frame |-> <<>>]
  ELSE IF hasBufferSemantics(op) /\ ~memw THEN
    [st |-> Fail(st, "unsupported"), frame |-> <<>>]
  ELSE IF \E k \in 1 .. Len(op.bargs) : Ty(op.bargs[k]).k \notin {"f32", "i32"} THEN
    [st |-> Fail(st, "unsupported"), frame |-> <<>>]
  ELSE IF \E k \in 1 .. Len(op.iters) :
            op.iters[k] \notin {"parallel", "reduction", "window"} THEN
    [st |-> Fail(st, "unsupported"), frame |-> <<>>]
  ELSE IF \E k \in 1 .. Len(op.args) : ~IsBound(st, op.args[k]) THEN
    [st |-> Fail(st, "unbound"), frame |-> <<>>]
  ELSE IF ~LoopBoundsFound(op) THEN
    [st |-> Fail(st, "out-of-range"), frame |-> <<>>]
  ELSE
    LET loopBounds == findLoopBounds(st, op)
        st1 == encodeUBForTensorShapeMatch(st, op, loopBounds)
        newst0 == PushScope(st1, loopBounds)
        outputMap == op.maps[Len(op.maps)]
        isParallelLoop == isPermutation(outputMap)
        init == initInputStateForLoopBody(newst0, mm, op,
                                          [v \in Vals(Len(loopBounds)) |-> TRUE])
        rm == reductionMatch(op)
        nout == Len(op.args) - op.nin
    IN
    IF st1.err # "" THEN [st |-> st1, frame |-> <<>>]
    ELSE IF init.st.err # "" THEN
      [st |-> Fail(st1, init.st.err), frame |-> <<>>]
    ELSE IF isParallelLoop THEN
      [st |-> st1,
       frame |-> MkFrame(init.st, op.body, "par", op.id, FALSE, init.welldef,
                         Len(op.body), "", "")]
    ELSE IF nout > 1 THEN [st |-> Fail(st1, "unsupported"), frame |-> <<>>]
    ELSE IF rm.idx = -1 THEN [st |-> Fail(st1, "unsupported"), frame |-> <<>>]
    ELSE
      [st |-> st1,
       frame |-> MkFrame(init.st, op.body, "red", op.id, FALSE, init.welldef,
                         Len(op.body), op.bargs[Len(op.bargs)],
                         op.body[rm.add].args[rm.idx + 1])]

\* ShapedValue::get1DSize : the number of elements, in Index arithmetic.
get1DSize(dims) == BV(Prod(dims))

\* Tensor::sum of the lambda tensor (dims, g): the abstract sum of its
\* elements in row-major order.
TensorSum(dims, g) ==
  fp_sum([k \in 1 .. get1DSize(dims) |-> g[from1DIdx(k - 1, dims)]])

\* The position of p in the list s.
PosIn(s, p) == CHOOSE j \in 1 .. Len(s) : s[j] = p

\* A paddingOrSource that reads the source at the result index, without
\* subtracting the low padding.
paddingOrSource_noShift(sourceTensor, low, pad, indvars) ==
  LET isSource(v) ==
        \A i \in 1 .. Len(indvars) :
           /\ low[i] <= v[indvars[i]]
           /\ v[indvars[i]] < BV(low[i] + sourceTensor.dims[i])
  IN [v \in DOMAIN pad |->
        IF isSource(v)
        THEN TensorGet(sourceTensor,
                       [i \in 1 .. Len(indvars) |-> v[indvars[i]]]).elem
        ELSE pad[v]]

\* The lambda paddingOrSource of encodeOp<linalg::PadTensorOp>: pad is the
\* yielded expression, indvars the positions of the index variables.
paddingOrSource(sourceTensor, low, pad, indvars) ==
  LET isSource(v) ==
        \A i \in 1 .. Len(indvars) :
           /\ low[i] <= v[indvars[i]]
           /\ v[indvars[i]] < BV(low[i] + sourceTensor.dims[i])
      sourceIndices(v) ==
        [i \in 1 .. Len(indvars) |-> BV(v[indvars[i]] + IdxMod - low[i])]
  IN [v \in DOMAIN pad |->
        IF isSource(v) THEN TensorGet(sourceTensor, sourceIndices(v)).elem
        ELSE pad[v]]

\* An encodeParallelLoopBodyAndOutputs that binds the induction variables in
\* iterator order instead of the order the output map gives them.
parallelOutputs_noPerm(newst, outputMap, yielded, outputValMap) ==
  LET scope == ScopeTop(newst)
      n == Len(scope.ub)
      tensorSz == addOne(doMap(scope.ub, outputMap))
  IN [i \in 1 .. Len(yielded) |->
        mkLambda("f32", tensorSz, IndVars(newst), n, newst.regs[yielded[i]].f)]

\* encodeParallelLoopBodyAndOutputs after its call of encodeBlock: the
\* tensors built from the yielded values.  outputValMap(resExpr, outputIndVars)
\* remaps a yielded expression: the optional is empty (has = FALSE) or holds
\* the paddingOrSource of a pad_tensor with what it captures.
parallelOutputs(newst, outputMap, yielded, outputValMap) ==
  LET scope == ScopeTop(newst)
      n == Len(scope.ub)
      outputIndVars == doMap(IndVars(newst), outputMap)
      tensorSz == addOne(doMap(scope.ub, outputMap))
      resExpr(i) ==
        IF outputValMap.has
        THEN paddingOrSource(outputValMap.sourceTensor, outputValMap.low,
                             newst.regs[yielded[i]].f, outputIndVars)
        ELSE newst.regs[yielded[i]].f
  IN [i \in 1 .. Len(yielded) |->
        mkLambda("f32", tensorSz, outputIndVars, n, resExpr(i))]

\* The absent outputValMap.
NoValMap == [has |-> FALSE]

\* encodeReductionLoopBodyAndOutput after its call of encodeBlock: ok is
\* FALSE when the output map has an unknown form.
reductionOutput(newst, op, sumvar) ==
  LET outputMap == op.maps[Len(op.maps)]
      linalgInfo == ScopeTop(newst)
      n == Len(linalgInfo.ub)
      v_expr == newst.regs[sumvar].f
      t_v == mkLambda("f32", addOne(linalgInfo.ub), IndVars(newst), n, v_expr)
      allZero == \A j \in 1 .. Len(outputMap.res) :
                    outputMap.res[j].k = "const" /\ outputMap.res[j].v = 0
      outRank == Len(Ty(op.args[op.nin + 1]).shape)
      isInputIdxUsed(j) == \E r \in 1 .. Len(outputMap.res) :
                              outputMap.res[r].v = j - 1
      unusedVars == SelectSeq([j \in 1 .. outputMap.nd |-> j],
                              LAMBDA j : ~isInputIdxUsed(j))
      boundsForRes == [j \in 1 .. Len(unusedVars) |-> linalgInfo.ub[unusedVars[j]]]
      sumDims == addOne(boundsForRes)
      tensorSz == addOne(doMap(linalgInfo.ub, outputMap))
      t_sum == [v \in Vals(n) |->
                  fp_sum([k \in 1 .. get1DSize(sumDims) |->
                     TensorGet(t_v,
                       [q \in 1 .. n |->
                          IF isInputIdxUsed(q) THEN v[q]
                          ELSE from1DIdx(k - 1, sumDims)[PosIn(unusedVars, q)]]).elem])]
      outputIndVars == doMap(IndVars(newst), outputMap)
  IN
  IF allZero THEN
    [ok |-> TRUE,
     t |-> MkTensor("f32", [i \in 1 .. outRank |-> 1],
             [x \in Vals(outRank) |-> TensorSum(t_v.dims, t_v.f)])]
  ELSE IF \E j \in 1 .. Len(outputMap.res) : outputMap.res[j].k # "dim" THEN
    [ok |-> FALSE, t |-> t_v]
  ELSE
    [ok |-> TRUE, t |-> mkLambda("f32", tensorSz, outputIndVars, n, t_sum)]

\* MemRef::store(val, indices) for the identity layout.
MemRefStore(mm, mr, val, idx) ==
  [m |-> [mm EXCEPT ![mr.bid].arr[to1DIdx(idx, mr.dims)] = val],
   success |-> MemRefGet(mm, mr, idx).inb /\ mm[mr.bid].writable]

\* MemRef::storeArray(tensor.asArray(), 0, tensor.get1DSize())
MemRefStoreArray(mm, mr, t) ==
  [m |-> [mm EXCEPT ![mr.bid].arr =
            [i \in Idx |-> IF i < get1DSize(t.dims)
                           THEN t.f[from1DIdx(i, t.dims)]
                           ELSE mm[mr.bid].arr[i]]],
   success |-> mm[mr.bid].writable /\ get1DSize(t.dims) <= mm[mr.bid].size]

RECURSIVE storeOutputs(_, _, _, _, _)
\* The buffer-semantics loop of encodeOp<linalg::GenericOp>: stores result i
\* and the following ones to the output operands.
storeOutputs(mm, st, op, tvec, i) ==
  IF i > Len(tvec) THEN [m |-> mm, success |-> TRUE]
  ELSE
    LET one == MemRefStoreArray(mm, st.regs[op.args[op.nin + i]], tvec[i])
        rest == storeOutputs(one.m, st, op, tvec, i + 1)
    IN [m |-> rest.m, success |-> one.success /\ rest.success]

\* An encoder of linalg.generic whose obligation ranges over the iterations
\* with iter[k] <= bound[k].
genericExit_leBound(st, mm, op, fr) ==
  LET newst == fr.st
      loopBounds == ScopeTop(newst).ub
      n == Len(loopBounds)
      red == reductionOutput(newst, op, fr.sumvar)
      tvec_res == IF fr.mode = "par"
                  THEN parallelOutputs(newst, op.maps[Len(op.maps)],
                                       fr.yielded, NoValMap)
                  ELSE <<red.t>>
      inbounds(v) == \A i \in 1 .. n : v[i] <= loopBounds[i]
      t_welldef == \A v \in Vals(n) : inbounds(v) => fr.welldef[v]
      st1 == WellDefined(st, op.id, ConstPred(st, t_welldef))
      stored == storeOutputs(mm, st, op, tvec_res, 1)
      RECURSIVE addResults(_, _)
      addResults(s, i) ==
        IF i > Len(tvec_res) THEN s
        ELSE addResults(RegAdd(s, op.res[i], tvec_res[i]), i + 1)
  IN
  IF fr.mode = "par" /\ \E i \in 1 .. Len(fr.yielded) : ~IsBound(newst, fr.yielded[i])
  THEN R(Fail(st, "unbound"), mm)
  ELSE IF fr.mode = "red" /\ ~IsBound(newst, fr.sumvar) THEN R(Fail(st, "unbound"), mm)
  ELSE IF fr.mode = "red" /\ ~red.ok THEN R(Fail(st, "unsupported"), mm)
  ELSE IF \E i \in 1 .. Len(tvec_res) : Len(tvec_res[i].dims) = 0
  THEN R(Fail(st, "assert"), mm)
  ELSE IF hasTensorSemantics(op) THEN
    IF Len(tvec_res) > Len(op.res) THEN R(Fail(st1, "assert"), mm)
    ELSE R(addResults(st1, 1), mm)
  ELSE
    R(WellDefined(st1, op.id, ConstPred(st1, stored.success)), stored.m)

\* encodeOp<linalg::GenericOp> from the return of encodeBlock on: st is the
\* State of the op, fr the activation that encoded the loop body.
genericExit(st, mm, op, fr) ==
  LET newst == fr.st
      loopBounds == ScopeTop(newst).ub
      n == Len(loopBounds)
      red == reductionOutput(newst, op, fr.sumvar)
      tvec_res == IF fr.mode = "par"
                  THEN parallelOutputs(newst, op.maps[Len(op.maps)],
                                       fr.yielded, NoValMap)
                  ELSE <<red.t>>
      inbounds(v) == \A i \in 1 .. n : v[i] < BV(loopBounds[i] + 1)
      t_welldef == \A v \in Vals(n) : inbounds(v) => fr.welldef[v]
      st1 == WellDefined(st, op.id, ConstPred(st, t_welldef))
      stored == storeOutputs(mm, st, op, tvec_res, 1)
      RECURSIVE addResults(_, _)
      addResults(s, i) ==
        IF i > Len(tvec_res) THEN s
        ELSE addResults(RegAdd(s, op.res[i], tvec_res[i]), i + 1)
  IN
  IF fr.mode = "par" /\ \E i \in 1 .. Len(fr.yielded) : ~IsBound(newst, fr.yielded[i])
  THEN R(Fail(st, "unbound"), mm)
  ELSE IF fr.mode = "red" /\ ~IsBound(newst, fr.sumvar) THEN R(Fail(st, "unbound"), mm)
  ELSE IF fr.mode = "red" /\ ~red.ok THEN R(Fail(st, "unsupported"), mm)
  ELSE IF \E i \in 1 .. Len(tvec_res) : Len(tvec_res[i].dims) = 0
  THEN R(Fail(st, "assert"), mm)
  ELSE IF hasTensorSemantics(op) THEN
    IF Len(tvec_res) > Len(op.res) THEN R(Fail(st1, "assert"), mm)
    ELSE R(addResults(st1, 1), mm)
  ELSE
    R(WellDefined(st1, op.id, ConstPred(st1, stored.success)), stored.m)

\* `newst.regs.add(blk.getArgument(i), Index(indVars[i]))` for every block
\* argument from i on.
RECURSIVE bindIndVars(_, _, _)
bindIndVars(newst, bargs, i) ==
  IF i > Len(bargs) THEN newst
  ELSE IF i > Len(ScopeTop(newst).ub) THEN Fail(newst, "out-of-range")
  ELSE bindIndVars(
         RegAdd(newst, bargs[i],
                MkScalar("Index", "index", [v \in FV(newst) |-> v[i]])),
         bargs, i + 1)

\* Whether a ranked type has a static shape.
hasStaticShape(ty) == \A i \in 1 .. Len(ty.shape) : ty.shape[i] # kDynamicSize

\* The sizes of encodeOp<linalg::PadTensorOp>.
padSizeLow(st, op) == getFromMixedOps(st, op.mixed[1])
padSizeHigh(st, op) == getFromMixedOps(st, op.mixed[2])

\* encodeOp<linalg::PadTensorOp> up to the call of encodeBlock on the region.
padEnter(st, mm, op, memw) ==
  LET retty == Ty(op.res[1])
      src == op.args[1]
  IN
  IF retty.k # "tensor" THEN [st |-> Fail(st, "unsupported"), frame |-> <<>>]
  ELSE IF ~MixedOpsTagged(st, op.mixed[1]) \/ ~MixedOpsTagged(st, op.mixed[2])
          \/ ~HasTag(st, src, "Tensor")
  THEN [st |-> Fail(st, "tag-mismatch"), frame |-> <<>>]
  ELSE IF Len(op.mixed[1]) # Len(st.regs[src].dims)
          \/ Len(op.mixed[2]) # Len(st.regs[src].dims)
  THEN [st |-> Fail(st, "assert"), frame |-> <<>>]
  ELSE
    LET sourceTensor == st.regs[src]
        newTensorSize ==
          [i \in 1 .. Len(sourceTensor.dims) |->
             BV(BV(sourceTensor.dims[i] + padSizeLow(st, op)[i])
                + padSizeHigh(st, op)[i])]
        loopUpperBound == [i \in 1 .. Len(newTensorSize) |->
                             BV(newTensorSize[i] + IdxMod - 1)]
        newst == bindIndVars(PushScope(st, loopUpperBound), op.bargs, 1)
    IN
    IF newst.err # "" THEN [st |-> Fail(st, newst.err), frame |-> <<>>]
    ELSE [st |-> st,
          frame |-> MkFrame(newst, op.body, "par", op.id, FALSE,
                      [v \in Vals(Len(loopUpperBound)) |-> TRUE],
                      Len(op.body), "", "")]

\* encodeOp<linalg::PadTensorOp> from the return of encodeBlock on.
padExit(st, mm, op, fr) ==
  LET newst == fr.st
      retty == Ty(op.res[1])
      sourceTensor == st.regs[op.args[1]]
      low == padSizeLow(st, op)
      PadMap == [has |-> TRUE, sourceTensor |-> sourceTensor, low |-> low]
      tvec_res == parallelOutputs(newst, IdMap(Len(retty.shape)), fr.yielded,
                                  PadMap)
      front == tvec_res[1]
      welldef == \A v \in FV(newst) : TensorInBounds(front, v) => fr.welldef[v]
      dimsMatch == \A i \in 1 .. Len(retty.shape) :
                      front.dims[i] = BV(retty.shape[i])
      st1 == IF hasStaticShape(retty)
             THEN WellDefined(st, op.id, ConstPred(st, dimsMatch))
             ELSE st
      st2 == RegAdd(st1, op.res[1], front)
  IN
  IF \E i \in 1 .. Len(fr.yielded) : ~IsBound(newst, fr.yielded[i])
  THEN R(Fail(st, "unbound"), mm)
  ELSE IF Len(low) # Len(retty.shape) THEN R(Fail(st, "assert"), mm)
  ELSE IF fr.yielded = <<>> THEN R(Fail(st, "out-of-range"), mm)
  ELSE R(WellDefined(st2, op.id, ConstPred(st2, welldef)), mm)

\* encodeOp<tensor::GenerateOp> up to the call of encodeBlock on the body.
\* op.args are the dynamic extents.
generateEnter(st, mm, op, memw) ==
  LET retty == Ty(op.res[1])
      ndyn(i) == Cardinality({q \in 1 .. i : retty.shape[q] = kDynamicSize})
      upperbound ==
        [i \in 1 .. Len(retty.shape) |->
           IF retty.shape[i] = kDynamicSize
           THEN BV(st.regs[op.args[ndyn(i)]].f[<<>>] + IdxMod - 1)
           ELSE BV(retty.shape[i] + IdxMod - 1)]
      newst == bindIndVars(PushScope(st, upperbound), op.bargs, 1)
  IN
  IF retty.k # "tensor" THEN [st |-> Fail(st, "unsupported"), frame |-> <<>>]
  ELSE IF \E i \in 1 .. Len(op.args) : ~HasTag(st, op.args[i], "Index")
  THEN [st |-> Fail(st, "tag-mismatch"), frame |-> <<>>]
  ELSE IF newst.err # "" THEN [st |-> Fail(st, newst.err), frame |-> <<>>]
  ELSE [st |-> st,
        frame |-> MkFrame(newst, op.body, "par", op.id, FALSE,
                    [v \in Vals(Len(upperbound)) |-> TRUE],
                    Len(op.body), "", "")]

\* encodeOp<tensor::GenerateOp> from the return of encodeBlock on.
generateExit(st, mm, op, fr) ==
  LET newst == fr.st
      retty == Ty(op.res[1])
      tvec_res == parallelOutputs(newst, IdMap(Len(retty.shape)), fr.yielded,
                                  NoValMap)
      front == tvec_res[1]
      welldef == \A v \in FV(newst) : TensorInBounds(front, v) => fr.welldef[v]
      st1 == RegAdd(st, op.res[1], front)
  IN
  IF \E i \in 1 .. Len(fr.yielded) : ~IsBound(newst, fr.yielded[i])
  THEN R(Fail(st, "unbound"), mm)
  ELSE IF fr.yielded = <<>> THEN R(Fail(st, "out-of-range"), mm)
  ELSE R(WellDefined(st1, op.id, ConstPred(st1, welldef)), mm)

\* The value of an Index register that does not depend on the induction
\* variables in scope.
IndexOf(st, id) == st.regs[id].f[CHOOSE v \in FV(st) : TRUE]

\* The dims of a shaped type: static sizes from the type, dynamic ones from
\* the operands dyn, in order.
DimsOf(st, ty, dyn) ==
  LET ndyn(i) == Cardinality({q \in 1 .. i : ty.shape[q] = kDynamicSize}) IN
  [i \in 1 .. Len(ty.shape) |->
     IF ty.shape[i] = kDynamicSize THEN IndexOf(st, dyn[ndyn(i)])
     ELSE BV(ty.shape[i])]

\* An init_tensor that names every tensor after the counter value 0.
encodeOp_InitTensorOp_sameName(st, mm, op, idx) ==
  LET ty == Ty(op.res[1])
      sizes == IF Len(ty.shape) = 0 THEN <<1>> ELSE DimsOf(st, ty, op.args)
  IN
  IF ty.k # "tensor" THEN R(Fail(st, "unsupported"), mm)
  ELSE IF \E i \in 1 .. Len(op.args) : ~HasTag(st, op.args[i], "Index")
  THEN R(Fail(st, "tag-mismatch"), mm)
  ELSE R(RegAdd(st, op.res[1], ArgTensor("init_tensor_0", sizes)), mm)

\* encodeOp<linalg::InitTensorOp> with new_var_idx = idx: a tensor of fresh
\* elements named after the counter.
encodeOp_InitTensorOp(st, mm, op, idx) ==
  LET ty == Ty(op.res[1])
      sizes == IF Len(ty.shape) = 0 THEN <<1>> ELSE DimsOf(st, ty, op.args)
  IN
  IF ty.k # "tensor" THEN R(Fail(st, "unsupported"), mm)
  ELSE IF \E i \in 1 .. Len(op.args) : ~HasTag(st, op.args[i], "Index")
  THEN R(Fail(st, "tag-mismatch"), mm)
  ELSE R(RegAdd(st, op.res[1],
           ArgTensor("init_tensor_" \o ToString(idx), sizes)), mm)

\* createNewLocalBlk(m, dims, memrefTy, writable): the new Memory and the
\* MemRef that points to the new block.
createNewLocalBlk(mm, dims, writable) ==
  [m |-> addLocalBlock(mm, get1DSize(dims), writable),
   memref |-> MkMemRef("f32", dims, Len(mm) + 1)]

\* encodeOp<memref::AllocOp>
encodeOp_AllocOp(st, mm, op, memw) ==
  LET memrefTy == Ty(op.res[1])
      new == createNewLocalBlk(mm, DimsOf(st, memrefTy, op.args), TRUE)
  IN
  IF \E i \in 1 .. Len(op.args) : ~HasTag(st, op.args[i], "Index")
  THEN R(Fail(st, "tag-mismatch"), mm)
  ELSE R(RegAdd(st, op.res[1], new.memref), new.m)

\* encodeOp<memref::StoreOp> : operand 1 is the value, operand 2 the memref,
\* the others are the indices.
encodeOp_StoreOp(st, mm, op, memw) ==
  LET n == Len(op.args) - 2
      indices(v) == [i \in 1 .. n |-> st.regs[op.args[i + 2]].f[v]]
      stored == MemRefStore(mm, st.regs[op.args[2]], st.regs[op.args[1]].f[<<>>],
                            indices(<<>>))
  IN
  IF ~memw THEN R(Fail(st, "unsupported"), mm)
  ELSE IF ~HasTag(st, op.args[2], "MemRef")
          \/ \E i \in 1 .. n : ~HasTag(st, op.args[i + 2], "Index")
  THEN R(Fail(st, "tag-mismatch"), mm)
  ELSE IF Ty(op.args[1]).k # "f32" THEN R(Fail(st, "unsupported"), mm)
  ELSE IF ~HasTag(st, op.args[1], "Float") THEN R(Fail(st, "tag-mismatch"), mm)
  ELSE R(WellDefined(st, op.id, ConstPred(st, stored.success)), stored.m)

\* loadTensorFrom(m)
loadTensorFrom(mm, mr) ==
  MkTensor(mr.ety, mr.dims,
    [x \in Vals(Len(mr.dims)) |-> MemRefGet(mm, mr, x).elem])

\* MemRef::isInBounds for the identity layout at offset 0.
MemRefIsInBounds(mm, mr) == get1DSize(mr.dims) <= mm[mr.bid].size

\* encodeOp<memref::TensorLoadOp>
encodeOp_TensorLoadOp(st, mm, op, memw) ==
  IF ~HasTag(st, op.args[1], "MemRef") THEN R(Fail(st, "tag-mismatch"), mm)
  ELSE
    LET mr == st.regs[op.args[1]]
        memory == setWritable(mm, mr.bid, FALSE)
        st1 == RegAdd(st, op.res[1], loadTensorFrom(memory, mr))
    IN R(WellDefined(st1, op.id, ConstPred(st1, MemRefIsInBounds(memory, mr))),
         memory)

\* MemRef::get(indices) under a strided layout: the element at the sum of
\* index times stride, and the in-bounds predicate.
MemRefGetStrided(mm, mr, strides, idx) ==
  LET RECURSIVE lin(_)
      lin(i) == IF i > Len(idx) THEN 0 ELSE BV(idx[i] * strides[i] + lin(i + 1))
  IN [elem |-> mm[mr.bid].arr[lin(1)],
      inb |-> /\ \A i \in 1 .. Len(mr.dims) : idx[i] < mr.dims[i]
              /\ lin(1) < mm[mr.bid].size]

\* storeTensorTo(st, op, tensor, memref, memrefTy).  For the identity layout:
\* memref.storeArray(tensor.asArray(), 0, tensor.get1DSize(), false).  The
\* last argument switches the writability check of the store off (a
\* buffer_cast stores into the read-only block it has just created), so the
\* success predicate is the bounds check alone.  For another layout nothing
\* is stored: the op is well defined iff the memref already holds the
\* tensor's element at every index at which both are in bounds.
storeTensorTo(st, mm, opid, tensor, memref, memrefTy) ==
  IF memrefTy.layout = <<>> THEN
    R(WellDefined(st, opid,
        ConstPred(st, get1DSize(tensor.dims) <= mm[memref.bid].size)),
      MemRefStoreArray(mm, memref, tensor).m)
  ELSE
    R(WellDefined(st, opid,
        ConstPred(st,
          \A idxs \in Vals(Len(memrefTy.shape)) :
             LET t == TensorGet(tensor, idxs)
                 mv == MemRefGetStrided(mm, memref, memrefTy.layout, idxs)
             IN (t.inb /\ mv.inb) => mv.elem = t.elem)),
      mm)

\* A tensor_store that checks the shapes and leaves the block as it was.
encodeOp_TensorStoreOp_noStore(st, mm, op, memw) ==
  LET t == st.regs[op.args[1]]
      mr == st.regs[op.args[2]]
  IN R(WellDefined(st, op.id,
         ConstPred(st, \A i \in 1 .. Len(t.dims) : t.dims[i] = mr.dims[i])),
       mm)

\* encodeOp<memref::TensorStoreOp> : operand 1 is the tensor, operand 2 the
\* memref.
encodeOp_TensorStoreOp(st, mm, op, memw) ==
  IF ~memw THEN R(Fail(st, "unsupported"), mm)
  ELSE IF ~HasTag(st, op.args[1], "Tensor") \/ ~HasTag(st, op.args[2], "MemRef")
  THEN R(Fail(st, "tag-mismatch"), mm)
  ELSE
    LET t == st.regs[op.args[1]]
        mr == st.regs[op.args[2]]
        st1 == WellDefined(st, op.id,
                 ConstPred(st, \A i \in 1 .. Len(t.dims) : t.dims[i] = mr.dims[i]))
    IN storeTensorTo(st1, mm, op.id, t, mr, Ty(op.args[2]))

\* encodeOp<memref::BufferCastOp>
encodeOp_BufferCastOp(st, mm, op, memw) ==
  IF ~memw THEN R(Fail(st, "unsupported"), mm)
  ELSE IF ~HasTag(st, op.args[1], "Tensor") THEN R(Fail(st, "tag-mismatch"), mm)
  ELSE
    LET tensor == st.regs[op.args[1]]
        new == createNewLocalBlk(mm, tensor.dims, FALSE)
        stored == storeTensorTo(st, new.m, op.id, tensor, new.memref,
                                Ty(op.res[1]))
    IN R(RegAdd(stored.st, op.res[1], new.memref), stored.m)

\* encodeOp<memref::CloneOp>
\* A clone that leaves the writable flag of its source as it is.
encodeOp_CloneOp_keepsWritable(st, mm, op, memw) ==
  IF ~memw THEN R(Fail(st, "unsupported"), mm)
  ELSE IF ~HasTag(st, op.args[1], "MemRef") THEN R(Fail(st, "tag-mismatch"), mm)
  ELSE
    LET src == st.regs[op.args[1]]
        new == createNewLocalBlk(mm, src.dims, FALSE)
        stored == storeTensorTo(st, new.m, op.id, loadTensorFrom(new.m, src),
                                new.memref, Ty(op.args[1]))
    IN R(RegAdd(stored.st, op.res[1], new.memref), stored.m)

encodeOp_CloneOp(st, mm, op, memw) ==
  IF ~memw THEN R(Fail(st, "unsupported"), mm)
  ELSE IF ~HasTag(st, op.args[1], "MemRef") THEN R(Fail(st, "tag-mismatch"), mm)
  ELSE
    LET src == st.regs[op.args[1]]
        new == createNewLocalBlk(mm, src.dims, FALSE)
        tensor == loadTensorFrom(new.m, src)
        stored == storeTensorTo(st, new.m, op.id, tensor, new.memref,
                                Ty(op.args[1]))
    IN R(RegAdd(stored.st, op.res[1], new.memref),
         setWritable(stored.m, src.bid, FALSE))

\* Tensor::reshape(newdims): the same row-major array under new dims.  The
\* element at a position beyond the old array is the old tensor's element at
\* the wrapped position.
reshape(t, newdims) ==
  LET n == Len(t.dims)
      stride(i) == Prod(SubSeq(t.dims, i + 1, n))
      at(k) == [i \in 1 .. n |->
                  IF t.dims[i] = 0 \/ stride(i) = 0 THEN 0
                  ELSE (k \div stride(i)) % t.dims[i]]
  IN MkTensor(t.ety, newdims,
       [x \in Vals(Len(newdims)) |-> t.f[at(to1DIdx(x, newdims))]])

\* The reassociation of an expand_shape / collapse_shape op is kept in
\* op.ints: ints[i] is the group (the axis of the low-rank tensor) that axis
\* i of the high-rank tensor belongs to.
\* encodeOp<linalg::TensorCollapseShapeOp>
encodeOp_TensorCollapseShapeOp(st, mm, op, memw) ==
  LET t == st.regs[op.args[1]]
      resTy == Ty(op.res[1])
      rank == Len(resTy.shape)
      size(g) == BV(Prod([i \in 1 .. Len(t.dims) |->
                            IF op.ints[i] = g THEN t.dims[i] ELSE 1]))
      newDims == IF rank = 0 THEN <<1>> ELSE [g \in 1 .. rank |-> size(g)]
      st1 == WellDefined(st, op.id,
               ConstPred(st, \A g \in 1 .. rank :
                  resTy.shape[g] # kDynamicSize => size(g) = BV(resTy.shape[g])))
      st2 == WellDefined(st1, op.id,
               ConstPred(st, get1DSize(t.dims) = get1DSize(newDims)))
  IN
  IF ~HasTag(st, op.args[1], "Tensor") THEN R(Fail(st, "tag-mismatch"), mm)
  ELSE R(RegAdd(st2, op.res[1], reshape(t, newDims)), mm)

\* An expand_shape that divides the dimension without asking that the
\* division is exact.
encodeOp_TensorExpandShapeOp_noDivCheck(st, mm, op, memw) ==
  LET t == st.regs[op.args[1]]
      shape == Ty(op.res[1]).shape
      const_size(srci) ==
        Prod([i \in 1 .. Len(shape) |->
                IF op.ints[i] = srci /\ shape[i] # kDynamicSize
                THEN shape[i] ELSE 1])
      newdims == [i \in 1 .. Len(shape) |->
                    IF shape[i] = kDynamicSize
                    THEN IF const_size(op.ints[i]) = 0 THEN IdxMod - 1
                         ELSE t.dims[op.ints[i]] \div const_size(op.ints[i])
                    ELSE BV(shape[i])]
  IN
  IF ~HasTag(st, op.args[1], "Tensor") THEN R(Fail(st, "tag-mismatch"), mm)
  ELSE R(RegAdd(WellDefined(st, op.id, ConstPred(st, TRUE)), op.res[1],
                reshape(t, newdims)), mm)

\* encodeOp<linalg::TensorExpandShapeOp>
encodeOp_TensorExpandShapeOp(st, mm, op, memw) ==
  LET t == st.regs[op.args[1]]
      shape == Ty(op.res[1]).shape
      n == Len(shape)
      unknown(srci) == {i \in 1 .. n : op.ints[i] = srci
                                       /\ shape[i] = kDynamicSize}
      const_size(srci) ==
        Prod([i \in 1 .. n |->
                IF op.ints[i] = srci /\ shape[i] # kDynamicSize
                THEN shape[i] ELSE 1])
      groups == {srci \in 1 .. Len(t.dims) : unknown(srci) # {}}
      \* bit-vector urem and udiv: x urem 0 = x, x udiv 0 = all ones
      mod(x, c) == IF c = 0 THEN x ELSE x % c
      udiv(x, c) == IF c = 0 THEN IdxMod - 1 ELSE x \div c
      newdims == [i \in 1 .. n |->
                    IF shape[i] = kDynamicSize
                    THEN udiv(t.dims[op.ints[i]], const_size(op.ints[i]))
                    ELSE BV(shape[i])]
      st1 == WellDefined(st, op.id,
               ConstPred(st, \A srci \in groups :
                                mod(t.dims[srci], const_size(srci)) = 0))
  IN
  IF ~HasTag(st, op.args[1], "Tensor") THEN R(Fail(st, "tag-mismatch"), mm)
  ELSE IF \E srci \in 1 .. Len(t.dims) : Cardinality(unknown(srci)) > 1
  THEN R(Fail(st, "unsupported"), mm)
  ELSE IF \E srci \in groups : const_size(srci) >= IdxMod
  THEN R(Fail(st, "unsupported"), mm)
  ELSE R(RegAdd(st1, op.res[1], reshape(t, newdims)), mm)

\* The slice ops keep their offsets, sizes and strides in op.mixed[1..3].
RECURSIVE extractSliceDims(_, _, _, _, _)
\* encodeOp<tensor::ExtractSliceOp>, the first loop: the output dims from
\* result axis i on, j being the next entry of the sizes to look at.  A
\* static result size of 1 takes no entry; otherwise the static sizes equal
\* to 1 are skipped.  A 0 - 1 stands for the failed assertion j < sizes.size().
extractSliceDims(resShape, mixedSizes, sizes, i, j) ==
  LET RECURSIVE skip(_)
      skip(q) == IF q <= Len(mixedSizes) /\ ~mixedSizes[q].isVal
                    /\ mixedSizes[q].c = 1
                 THEN skip(q + 1) ELSE q
      j2 == skip(j)
  IN
  IF i > Len(resShape) THEN <<>>
  ELSE IF resShape[i] = 1
  THEN <<1>> \o extractSliceDims(resShape, mixedSizes, sizes, i + 1, j)
  ELSE IF j2 > Len(sizes) THEN <<0 - 1>>
  ELSE <<sizes[j2]>> \o extractSliceDims(resShape, mixedSizes, sizes, i + 1, j2 + 1)

RECURSIVE extractSliceOutIdxs(_, _, _, _, _, _)
\* encodeOp<tensor::ExtractSliceOp>, the second loop: the source index read
\* for the output index inIdxs, from source axis i on; idx counts the output
\* axes used so far.  A size is a known 1 only when it is an attribute.
extractSliceOutIdxs(resShape, mixed, st, inIdxs, i, idx) ==
  LET offsets == getFromMixedOps(st, mixed[1])
      strides == getFromMixedOps(st, mixed[3])
      isDimSizeOne ==
        \/ idx >= Len(resShape)
        \/ /\ ~mixed[2][i].isVal /\ mixed[2][i].c = 1
           /\ resShape[idx + 1] # kDynamicSize
  IN
  IF i > Len(mixed[3]) THEN <<>>
  ELSE IF isDimSizeOne
  THEN <<offsets[i]>>
       \o extractSliceOutIdxs(resShape, mixed, st, inIdxs, i + 1, idx)
  ELSE <<BV(inIdxs[idx + 1] * strides[i] + offsets[i])>>
       \o extractSliceOutIdxs(resShape, mixed, st, inIdxs, i + 1, idx + 1)

\* encodeOp<tensor::ExtractSliceOp> with the obligation that the slice lies
\* within the dims of the source.
encodeOp_ExtractSliceOp_inBoundsUB(st, mm, op, memw) ==
  LET src == st.regs[op.args[1]]
      srcType == Ty(op.args[1])
      resType == Ty(op.res[1])
      sizes == getFromMixedOps(st, op.mixed[2])
      offsets == getFromMixedOps(st, op.mixed[1])
      strides == getFromMixedOps(st, op.mixed[3])
      inSrc == \A i \in 1 .. Len(sizes) :
                 sizes[i] = 0 \/ offsets[i] + (sizes[i] - 1) * strides[i] < src.dims[i]
      dims == extractSliceDims(resType.shape, op.mixed[2], sizes, 1, 1)
  IN
  IF ~HasTag(st, op.args[1], "Tensor")
     \/ \E q \in 1 .. 3 : ~MixedOpsTagged(st, op.mixed[q])
  THEN R(Fail(st, "tag-mismatch"), mm)
  ELSE IF Len(op.mixed[1]) # Len(op.mixed[2])
          \/ Len(op.mixed[2]) # Len(op.mixed[3])
          \/ Len(op.mixed[3]) # Len(srcType.shape)
  THEN R(Fail(st, "unsupported"), mm)
  ELSE IF \E i \in 1 .. Len(dims) : dims[i] < 0
  THEN R(Fail(st, "assert"), mm)
  ELSE R(RegAdd(WellDefined(st, op.id, ConstPred(st, inSrc)), op.res[1],
           MkTensor(src.ety, dims,
             [inIdxs \in Vals(Len(resType.shape)) |->
                src.f[extractSliceOutIdxs(resType.shape, op.mixed, st,
                                          inIdxs, 1, 0)]])), mm)

\* encodeOp<tensor::ExtractSliceOp>
encodeOp_ExtractSliceOp(st, mm, op, memw) ==
  LET src == st.regs[op.args[1]]
      srcType == Ty(op.args[1])
      resType == Ty(op.res[1])
      sizes == getFromMixedOps(st, op.mixed[2])
      dims == extractSliceDims(resType.shape, op.mixed[2], sizes, 1, 1)
  IN
  IF ~HasTag(st, op.args[1], "Tensor")
     \/ \E q \in 1 .. 3 : ~MixedOpsTagged(st, op.mixed[q])
  THEN R(Fail(st, "tag-mismatch"), mm)
  ELSE IF Len(op.mixed[1]) # Len(op.mixed[2])
          \/ Len(op.mixed[2]) # Len(op.mixed[3])
          \/ Len(op.mixed[3]) # Len(srcType.shape)
  THEN R(Fail(st, "unsupported"), mm)
  ELSE IF \E i \in 1 .. Len(dims) : dims[i] < 0
  THEN R(Fail(st, "assert"), mm)
  ELSE R(RegAdd(st, op.res[1],
           MkTensor(src.ety, dims,
             [inIdxs \in Vals(Len(resType.shape)) |->
                src.f[extractSliceOutIdxs(resType.shape, op.mixed, st,
                                          inIdxs, 1, 0)]])), mm)

\* encodeOp<tensor::InsertSliceOp> : operand 1 is the source, operand 2 the
\* destination.
encodeOp_InsertSliceOp(st, mm, op, memw) ==
  LET src == st.regs[op.args[1]]
      tgt == st.regs[op.args[2]]
      rank == Len(Ty(op.args[1]).shape)
      offsets == getFromMixedOps(st, op.mixed[1])
      sizes == getFromMixedOps(st, op.mixed[2])
      strides == getFromMixedOps(st, op.mixed[3])
      \* bit-vector udiv and urem by zero
      udiv(x, c) == IF c = 0 THEN IdxMod - 1 ELSE x \div c
      urem(x, c) == IF c = 0 THEN x ELSE x % c
      rel(indVars, i) == BV(indVars[i] - offsets[i])
      srcIdxs(indVars) ==
        [i \in 1 .. rank |-> udiv(rel(indVars, i), strides[i])]
      cond(indVars) ==
        \A i \in 1 .. rank :
           /\ urem(rel(indVars, i), strides[i]) = 0
           /\ rel(indVars, i) < BV(sizes[i] * strides[i])
      wb == \A indVars \in Vals(rank) :
              (TensorInBounds(tgt, indVars) /\ cond(indVars))
                => TensorInBounds(src, srcIdxs(indVars))
  IN
  IF ~HasTag(st, op.args[1], "Tensor") \/ ~HasTag(st, op.args[2], "Tensor")
  THEN R(Fail(st, "tag-mismatch"), mm)
  ELSE IF rank # Len(Ty(op.args[2]).shape) \/ rank # Len(Ty(op.res[1]).shape)
  THEN R(Fail(st, "unsupported"), mm)
  ELSE IF \E q \in 1 .. 3 : ~MixedOpsTagged(st, op.mixed[q])
  THEN R(Fail(st, "tag-mismatch"), mm)
  ELSE R(RegAdd(WellDefined(st, op.id, ConstPred(st, wb)), op.res[1],
           MkTensor(src.ety, tgt.dims,
             [indVars \in Vals(rank) |->
                IF cond(indVars) THEN src.f[srcIdxs(indVars)]
                ELSE tgt.f[indVars]])), mm)

\* attrToValueTy(a) for an element of a dense attribute of element type ety:
\* ok is FALSE for the UnsupportedException (an integer wider than 64 bits,
\* a type that is not a float, an integer or index).
attrToValueTy(a, ety) ==
  IF ety = "f32" THEN [ok |-> TRUE, v |-> "cst" \o ToString(a)]
  ELSE IF ety \in {"i32", "i64", "i128"} THEN
    IF ety = "i128" THEN [ok |-> FALSE, v |-> 0] ELSE [ok |-> TRUE, v |-> BV(a)]
  ELSE IF ety = "index" THEN [ok |-> TRUE, v |-> BV(a)]
  ELSE [ok |-> FALSE, v |-> 0]

\* The number of iterations after which the evaluation of the enumeration
\* loop of elemAttrToTensor is given up (a tensor has fewer elements than an
\* Index has values).
DenseFuel == IdxMod

RECURSIVE Zeros(_)
\* std::vector<int64_t> elems(rank): rank zeros.
Zeros(n) == IF n = 0 THEN <<>> ELSE Append(Zeros(n - 1), 0)

RECURSIVE denseIndices_noCascade(_, _, _, _)
\* denseIndices with a carry of one step only: the inner `while` is an `if`.
denseIndices_noCascade(dims, elems, visited, fuel) ==
  LET rank == Len(dims)
      carry(e, focus) ==
        IF 2 <= focus /\ e[focus] = dims[focus]
        THEN [e EXCEPT ![focus] = 0, ![focus - 1] = @ + 1]
        ELSE e
      atEnd == elems[rank] = dims[rank]
      next == IF atEnd THEN carry(elems, rank) ELSE elems
  IN
  IF atEnd /\ next[1] = dims[1] THEN [ok |-> TRUE, visited |-> visited]
  ELSE IF fuel = 0 \/ \E i \in 1 .. rank : next[i] >= dims[i]
  THEN [ok |-> FALSE, visited |-> visited]
  ELSE denseIndices_noCascade(dims, [next EXCEPT ![rank] = @ + 1],
                              Append(visited, next), fuel - 1)

RECURSIVE denseIndices(_, _, _, _)
\* The `while (true)` loop of elemAttrToTensor from the counter elems on:
\* visited lists the index tuples whose value was pushed so far.  ok is FALSE
\* when the loop reads the attribute outside its dims or does not stop.
denseIndices(dims, elems, visited, fuel) ==
  LET rank == Len(dims)
      RECURSIVE carry(_, _)
      carry(e, focus) ==
        IF 2 <= focus /\ e[focus] = dims[focus]
        THEN carry([e EXCEPT ![focus] = 0, ![focus - 1] = @ + 1], focus - 1)
        ELSE e
      atEnd == elems[rank] = dims[rank]
      next == IF atEnd THEN carry(elems, rank) ELSE elems
  IN
  IF atEnd /\ next[1] = dims[1] THEN [ok |-> TRUE, visited |-> visited]
  ELSE IF fuel = 0 \/ \E i \in 1 .. rank : next[i] >= dims[i]
  THEN [ok |-> FALSE, visited |-> visited]
  ELSE denseIndices(dims, [next EXCEPT ![rank] = @ + 1],
                    Append(visited, next), fuel - 1)

\* elemAttrToTensor(attr, tensorty) for a dense attribute: values lists the
\* values the attribute holds in row-major order, a single one for a splat.
\* r is "ok", "unsupported" (attrToValueTy threw) or "assert".
elemAttrToTensor(values, tensorty) ==
  LET dims == tensorty.shape
      ety == tensorty.ety
      rank == Len(dims)
      attrAt(idx) == values[to1DIdx(idx, dims) + 1]
      loop == denseIndices(dims, Zeros(rank), <<>>, DenseFuel)
      exprs == [k \in 1 .. Len(loop.visited) |->
                  attrToValueTy(attrAt(loop.visited[k]), ety).v]
      flat == MkTensor(ety, <<Len(exprs)>>,
                [x \in Vals(1) |->
                   IF x[1] < Len(exprs) THEN exprs[x[1] + 1] ELSE exprs[1]])
      none == MkTensor(ety, dims, <<>>)
  IN
  IF Len(values) = 1 THEN
    IF ~attrToValueTy(values[1], ety).ok THEN [r |-> "unsupported", t |-> none]
    ELSE [r |-> "ok",
          t |-> MkTensor(ety, dims,
                  [x \in Vals(rank) |-> attrToValueTy(values[1], ety).v])]
  ELSE IF \E i \in 1 .. rank : dims[i] = kDynamicSize
  THEN [r |-> "assert", t |-> none]
  ELSE IF ~attrToValueTy(values[1], ety).ok THEN [r |-> "unsupported", t |-> none]
  ELSE IF ~loop.ok THEN [r |-> "assert", t |-> none]
  ELSE [r |-> "ok", t |-> reshape(flat, dims)]

\* encodeOp<tosa::ConstOp> : op.ints holds the values of the dense attribute.
encodeOp_TosaConstOp(st, mm, op, memw) ==
  LET dty == Ty(op.res[1])
      te == elemAttrToTensor(op.ints, dty)
  IN
  IF dty.k # "tensor" THEN R(Fail(st, "unsupported"), mm)
  ELSE IF te.r # "ok" THEN R(Fail(st, te.r), mm)
  ELSE R(RegAdd(st, op.res[1], te.t), mm)

\* encodeOp<arith::ConstantIndexOp> : the constant op.ints[1].
encodeOp_ConstantIndexOp(st, mm, op, memw) ==
  R(RegAdd(st, op.res[1],
      MkScalar("Index", "index", [v \in FV(st) |-> BV(op.ints[1])])), mm)

\* encodeOp<arith::ConstantIntOp> : the constant op.ints[1], as a bit-vector.
encodeOp_ConstantIntOp(st, mm, op, memw) ==
  R(RegAdd(st, op.res[1],
      MkScalar("Integer", "i32", [v \in FV(st) |-> BV(op.ints[1])])), mm)

\* encodeOp<tensor::InsertOp> : operand 1 is the scalar, operand 2 the
\* destination, the others are the indices.  Tensor::insert gives the tensor
\* that holds the scalar at the indices and the destination elsewhere, and
\* the in-bounds condition of the indices.
encodeOp_InsertOp(st, mm, op, memw) ==
  LET n == Len(op.args) - 2
      v0 == CHOOSE v \in FV(st) : TRUE
      val == st.regs[op.args[1]].f[v0]
      dest == st.regs[op.args[2]]
      indices == [i \in 1 .. n |-> st.regs[op.args[i + 2]].f[v0]]
      tensor == [dest EXCEPT !.f[indices] = val]
      inbounds == \A i \in 1 .. n : indices[i] < dest.dims[i]
  IN
  IF ~HasTag(st, op.args[1], "Float") \/ ~HasTag(st, op.args[2], "Tensor")
     \/ \E i \in 1 .. n : ~HasTag(st, op.args[i + 2], "Index")
  THEN R(Fail(st, "tag-mismatch"), mm)
  ELSE R(WellDefined(RegAdd(st, op.res[1], tensor), op.id,
                     ConstPred(st, inbounds)), mm)

\* ------------------------------------------------------------ encodeBlock
\* The activation that is running, and the op its loop is at.
Cur == stk[Len(stk)]
\* `index++` at the head of the loop body: the 0-based position of the op.
OpIndex(fr) == fr.index + 1
HasOp(fr) == OpIndex(fr) < Len(fr.blk)
OpAt(fr) == fr.blk[OpIndex(fr) + 1]

\* The pre-hook of encodeParallelLoopBodyAndOutputs: yields are recorded and
\* skipped.
checkBeforeEnc_par(fr, op, opindex) ==
  IF op.kind \in {"linalg.yield", "tensor.yield"}
  THEN [skip |-> TRUE, throw |-> FALSE, yielded |-> fr.yielded \o op.args]
  ELSE [skip |-> FALSE, throw |-> FALSE, yielded |-> fr.yielded]

\* The pre-hook of encodeReductionLoopBodyAndOutput: the add and the yield
\* are skipped, another use of the accumulator is unsupported.
checkBeforeEnc_red(fr, op, opindex) ==
  IF opindex >= fr.instcount - 2
  THEN [skip |-> TRUE, throw |-> FALSE, yielded |-> fr.yielded]
  ELSE IF \E i \in 1 .. Len(op.args) : op.args[i] = fr.lastarg
  THEN [skip |-> FALSE, throw |-> TRUE, yielded |-> fr.yielded]
  ELSE [skip |-> FALSE, throw |-> FALSE, yielded |-> fr.yielded]

\* `checkBeforeEnc && checkBeforeEnc(&op, index)`
checkBeforeEnc(fr, op, opindex) ==
  IF fr.mode = "par" THEN checkBeforeEnc_par(fr, op, opindex)
  ELSE IF fr.mode = "red" THEN checkBeforeEnc_red(fr, op, opindex)
  ELSE [skip |-> FALSE, throw |-> FALSE, yielded |-> fr.yielded]

\* `if (callbackAfterEnc) callbackAfterEnc(&op)` : both loop encoders
\* conjoin the op's well-definedness into welldef.
callbackAfterEnc(fr, op) ==
  IF fr.mode = "top" THEN fr
  ELSE [fr EXCEPT !.welldef =
          [v \in FV(fr.st) |-> fr.welldef[v] /\ isOpWellDefined(fr.st, op.id)[v]]]

\* A call made by encodeBlock: e is pre (the pre-hook), enc (an encoder),
\* post (the post-hook) or nomatch (the throw at the end of the chain);
\* blk is the op that owns the block (fn for the function body), i the
\* position of op in the block, skip what the pre-hook returned.
Ev(e, blk, i, op, skip) == [e |-> e, blk |-> blk, i |-> i, op |-> op, skip |-> skip]

\* A pre-hook call that is handed the position of the next op.
preEvents_shifted(fr, op, opindex, skip) ==
  IF fr.mode = "top" THEN <<>>
  ELSE <<Ev("pre", fr.owner, opindex + 1, op.id, skip)>>

\* The calls of one iteration of the loop of encodeBlock.
preEvents(fr, op, opindex, skip) ==
  IF fr.mode = "top" THEN <<>>
  ELSE <<Ev("pre", fr.owner, opindex, op.id, skip)>>
encEvents(fr, op, opindex) == <<Ev("enc", fr.owner, opindex, op.id, FALSE)>>
postEvents(fr, op, opindex) ==
  IF fr.mode = "top" THEN <<>>
  ELSE <<Ev("post", fr.owner, opindex, op.id, FALSE)>>

\* The kinds of op the ENCODE chain of encodeBlock matches.
ChainKinds ==
  {"affine.apply", "std.select", "return",
   "arith.addf", "arith.addi", "arith.cmpf", "arith.constant_float",
   "arith.constant_index", "arith.constant_int", "arith.constant",
   "arith.extf", "arith.index_cast", "arith.mulf", "arith.muli",
   "arith.negf", "arith.subf", "arith.subi", "arith.truncf",
   "math.abs",
   "memref.alloc", "memref.buffer_cast", "memref.clone", "memref.dim",
   "memref.load", "memref.store", "memref.subview", "memref.tensor_load",
   "memref.tensor_store",
   "linalg.conv_2d_nchw_fchw", "linalg.conv_2d_nhwc_hwcf", "linalg.copy",
   "linalg.dot", "linalg.fill", "linalg.generic", "linalg.index",
   "linalg.init_tensor", "linalg.matmul", "linalg.pad_tensor",
   "linalg.tensor_collapse_shape", "linalg.tensor_expand_shape",
   "shape.shape_of", "shape.to_extent_tensor", "sparse_tensor.convert",
   "tensor.cast", "tensor.dim", "tensor.insert", "tensor.extract",
   "tensor.extract_slice", "tensor.from_elements", "tensor.generate",
   "tensor.insert_slice",
   "tosa.abs", "tosa.add", "tosa.bitwise_and", "tosa.bitwise_not",
   "tosa.bitwise_or", "tosa.bitwise_xor", "tosa.concat", "tosa.const",
   "tosa.mul", "tosa.negate", "tosa.reshape", "tosa.reverse", "tosa.sub",
   "tosa.tile"}

\* What an exception leaves: the activations of the loop bodies are gone, the
\* function's State keeps what was done to it, with the error recorded.
unwind(stack, st, err) ==
  <<[stack[1] EXCEPT
       !.st = Fail(IF Len(stack) = 1 THEN st ELSE stack[1].st, err),
       !.index = IF Len(stack) = 1 THEN OpIndex(stack[1]) ELSE @]>>

\* An end of the chain that ignores the op and goes on with the next one.
throwUnsupported_continue(stack, op) ==
  [stk |-> [stack EXCEPT ![Len(stack)].index = OpIndex(stack[Len(stack)])],
   status |-> "running", failedOp |-> ""]

\* `throw UnsupportedException(&op)` at the end of the chain.
throwUnsupported(stack, op) ==
  [stk |-> unwind(stack, stack[Len(stack)].st, "unsupported"),
   status |-> "unsupported", failedOp |-> op.id]

\* The loop of encodeBlock is at an op of this kind and the pre-hook lets
\* it through.
Ready(kind) ==
  /\ status = "running"
  /\ HasOp(Cur)
  /\ OpAt(Cur).kind = kind
  /\ ~checkBeforeEnc(Cur, OpAt(Cur), OpIndex(Cur)).skip
  /\ ~checkBeforeEnc(Cur, OpAt(Cur), OpIndex(Cur)).throw

\* The encoder threw: err tells how (unsupported is UnsupportedException,
\* anything else a failed assertion or contract).
Throw(op, st, mm, carried) ==
  /\ stk' = unwind(stk, st, st.err)
  /\ entryMem' = <<entryMem[1]>>
  /\ m' = mm
  /\ status' = IF st.err = "unsupported" THEN "unsupported" ELSE "crash"
  /\ failedOp' = carried
  /\ trace' = trace \o preEvents(Cur, op, OpIndex(Cur), FALSE)
                    \o encEvents(Cur, op, OpIndex(Cur))

\* The activation that called the running one, and the op it is encoding.
Outer == stk[Len(stk) - 1]
OuterOp == Outer.blk[Outer.index + 1]

\* One iteration of the loop for an op whose encoder, called on the State
\* of the activation, returns r: pre-hook, encoder, post-hook.
Encode(r) ==
  LET fr == Cur
      op == OpAt(fr)
  IN
  IF r.st.err # "" THEN Throw(op, r.st, r.m, op.id)
  ELSE
    /\ stk' = [stk EXCEPT ![Len(stk)] =
                 callbackAfterEnc([fr EXCEPT !.st = r.st, !.index = OpIndex(fr)], op)]
    /\ m' = r.m
    /\ trace' = trace \o preEvents(fr, op, OpIndex(fr), FALSE)
                      \o encEvents(fr, op, OpIndex(fr))
                      \o postEvents(fr, op, OpIndex(fr))
    /\ UNCHANGED <<status, failedOp, entryMem>>

\* The first half of an iteration for an op with a region: the pre-hook and
\* the encoder up to its call of encodeBlock, which starts a new activation.
\* (A loop op inside a loop body is not modelled.)
Enter(kind, r) ==
  /\ Ready(kind)
  /\ Len(stk) = 1
  /\ LET fr == Cur
         op == OpAt(fr)
     IN
     IF r.st.err # "" THEN Throw(op, r.st, m, op.id)
     ELSE
       /\ stk' = [stk EXCEPT ![Len(stk)] =
                    [fr EXCEPT !.st = r.st, !.index = OpIndex(fr)]]
                 \o <<r.frame>>
       /\ entryMem' = Append(entryMem, m)
       /\ trace' = trace \o preEvents(fr, op, OpIndex(fr), FALSE)
                         \o encEvents(fr, op, OpIndex(fr))
       /\ UNCHANGED <<m, status, failedOp>>
  /\ UNCHANGED <<fn, prev, newVarIdx>>

\* The second half: encodeBlock returned from the region, the encoder builds
\* its result in the State of the op, then the post-hook runs.
Exit(kind, r) ==
  /\ status = "running"
  /\ Len(stk) > 1
  /\ ~HasOp(Cur)
  /\ LET outer == Outer
         op == OuterOp
     IN
     /\ op.kind = kind
     /\ IF r.st.err # ""
        THEN /\ stk' = unwind(stk, r.st, r.st.err)
             /\ entryMem' = <<entryMem[1]>>
             /\ m' = r.m
             /\ status' = IF r.st.err = "unsupported" THEN "unsupported" ELSE "crash"
             /\ failedOp' = op.id
             /\ UNCHANGED trace
        ELSE /\ stk' = SubSeq(stk, 1, Len(stk) - 2)
                       \o <<callbackAfterEnc([outer EXCEPT !.st = r.st], op)>>
             /\ entryMem' = SubSeq(entryMem, 1, Len(entryMem) - 1)
             /\ m' = r.m
             /\ trace' = trace \o postEvents(outer, op, outer.index)
             /\ UNCHANGED <<status, failedOp>>
  /\ UNCHANGED <<fn, prev, newVarIdx>>

\* ------------------------------------------------------------- the actions
\* encodeBlock on an arith.addf.
EncodeAddF ==
  /\ Ready("arith.addf")
  /\ Encode(encodeOp_AddFOp(Cur.st, m, OpAt(Cur), Cur.memw))
  /\ UNCHANGED <<fn, prev, newVarIdx>>

EncodeMulF ==
  /\ Ready("arith.mulf")
  /\ Encode(encodeOp_MulFOp(Cur.st, m, OpAt(Cur), Cur.memw))
  /\ UNCHANGED <<fn, prev, newVarIdx>>

EncodeTosaAdd ==
  /\ Ready("tosa.add")
  /\ Encode(encodeOp_TosaAddOp(Cur.st, m, OpAt(Cur), Cur.memw))
  /\ UNCHANGED <<fn, prev, newVarIdx>>

EncodeReturn ==
  /\ Ready("return")
  /\ Encode(encodeOp_ReturnOp(Cur.st, m, OpAt(Cur), Cur.memw))
  /\ UNCHANGED <<fn, prev, newVarIdx>>

EncodeConstantFloat ==
  /\ Ready("arith.constant_float")
  /\ Encode(encodeOp_ConstantFloatOp(Cur.st, m, OpAt(Cur), Cur.memw))
  /\ UNCHANGED <<fn, prev, newVarIdx>>

EncodeIndex ==
  /\ Ready("linalg.index")
  /\ Encode(encodeOp_IndexOp(Cur.st, m, OpAt(Cur), Cur.memw))
  /\ UNCHANGED <<fn, prev, newVarIdx>>

EncodeExtract ==
  /\ Ready("tensor.extract")
  /\ Encode(encodeOp_ExtractOp(Cur.st, m, OpAt(Cur), Cur.memw))
  /\ UNCHANGED <<fn, prev, newVarIdx>>

\* encodeBlock on a linalg.init_tensor: the encoder reads the static counter
\* and increments it.
EncodeInitTensor ==
  /\ Ready("linalg.init_tensor")
  /\ Encode(encodeOp_InitTensorOp(Cur.st, m, OpAt(Cur), newVarIdx))
  /\ newVarIdx' = IF \E i \in 1 .. Len(OpAt(Cur).args) :
                       ~HasTag(Cur.st, OpAt(Cur).args[i], "Index")
                  THEN newVarIdx ELSE newVarIdx + 1
  /\ UNCHANGED <<fn, prev>>

EncodeAlloc ==
  /\ Ready("memref.alloc")
  /\ Encode(encodeOp_AllocOp(Cur.st, m, OpAt(Cur), Cur.memw))
  /\ UNCHANGED <<fn, prev, newVarIdx>>

EncodeStore ==
  /\ Ready("memref.store")
  /\ Encode(encodeOp_StoreOp(Cur.st, m, OpAt(Cur), Cur.memw))
  /\ UNCHANGED <<fn, prev, newVarIdx>>

EncodeTensorLoad ==
  /\ Ready("memref.tensor_load")
  /\ Encode(encodeOp_TensorLoadOp(Cur.st, m, OpAt(Cur), Cur.memw))
  /\ UNCHANGED <<fn, prev, newVarIdx>>

EncodeTensorStore ==
  /\ Ready("memref.tensor_store")
  /\ Encode(encodeOp_TensorStoreOp(Cur.st, m, OpAt(Cur), Cur.memw))
  /\ UNCHANGED <<fn, prev, newVarIdx>>

EncodeBufferCast ==
  /\ Ready("memref.buffer_cast")
  /\ Encode(encodeOp_BufferCastOp(Cur.st, m, OpAt(Cur), Cur.memw))
  /\ UNCHANGED <<fn, prev, newVarIdx>>

EncodeClone ==
  /\ Ready("memref.clone")
  /\ Encode(encodeOp_CloneOp(Cur.st, m, OpAt(Cur), Cur.memw))
  /\ UNCHANGED <<fn, prev, newVarIdx>>

EncodeCollapseShape ==
  /\ Ready("linalg.tensor_collapse_shape")
  /\ Encode(encodeOp_TensorCollapseShapeOp(Cur.st, m, OpAt(Cur), Cur.memw))
  /\ UNCHANGED <<fn, prev, newVarIdx>>

EncodeExpandShape ==
  /\ Ready("linalg.tensor_expand_shape")
  /\ Encode(encodeOp_TensorExpandShapeOp(Cur.st, m, OpAt(Cur), Cur.memw))
  /\ UNCHANGED <<fn, prev, newVarIdx>>

EncodeExtractSlice ==
  /\ Ready("tensor.extract_slice")
  /\ Encode(encodeOp_ExtractSliceOp(Cur.st, m, OpAt(Cur), Cur.memw))
  /\ UNCHANGED <<fn, prev, newVarIdx>>

EncodeInsertSlice ==
  /\ Ready("tensor.insert_slice")
  /\ Encode(encodeOp_InsertSliceOp(Cur.st, m, OpAt(Cur), Cur.memw))
  /\ UNCHANGED <<fn, prev, newVarIdx>>

EncodeTosaSub ==
  /\ Ready("tosa.sub")
  /\ Encode(encodeOp_TosaSubOp(Cur.st, m, OpAt(Cur), Cur.memw))
  /\ UNCHANGED <<fn, prev, newVarIdx>>

EncodeTosaNegate ==
  /\ Ready("tosa.negate")
  /\ Encode(encodeOp_TosaNegateOp(Cur.st, m, OpAt(Cur), Cur.memw))
  /\ UNCHANGED <<fn, prev, newVarIdx>>

EncodeConstantIndex ==
  /\ Ready("arith.constant_index")
  /\ Encode(encodeOp_ConstantIndexOp(Cur.st, m, OpAt(Cur), Cur.memw))
  /\ UNCHANGED <<fn, prev, newVarIdx>>

EncodeConstantInt ==
  /\ Ready("arith.constant_int")
  /\ Encode(encodeOp_ConstantIntOp(Cur.st, m, OpAt(Cur), Cur.memw))
  /\ UNCHANGED <<fn, prev, newVarIdx>>

EncodeInsert ==
  /\ Ready("tensor.insert")
  /\ Encode(encodeOp_InsertOp(Cur.st, m, OpAt(Cur), Cur.memw))
  /\ UNCHANGED <<fn, prev, newVarIdx>>

\* The exception of attrToValueTy carries no operation.
EncodeTosaConst ==
  /\ Ready("tosa.const")
  /\ LET r == encodeOp_TosaConstOp(Cur.st, m, OpAt(Cur), Cur.memw) IN
     IF r.st.err = "unsupported" /\ Ty(OpAt(Cur).res[1]).k = "tensor"
     THEN Throw(OpAt(Cur), r.st, r.m, "")
     ELSE Encode(r)
  /\ UNCHANGED <<fn, prev, newVarIdx>>

GenericEnter ==
  Enter("linalg.generic", genericEnter(Cur.st, m, OpAt(Cur), Cur.memw))
GenericExit ==
  Exit("linalg.generic", genericExit(Outer.st, m, OuterOp, Cur))
PadEnter ==
  Enter("linalg.pad_tensor", padEnter(Cur.st, m, OpAt(Cur), Cur.memw))
PadExit ==
  Exit("linalg.pad_tensor", padExit(Outer.st, m, OuterOp, Cur))
GenerateEnter ==
  Enter("tensor.generate", generateEnter(Cur.st, m, OpAt(Cur), Cur.memw))
GenerateExit ==
  Exit("tensor.generate", generateExit(Outer.st, m, OuterOp, Cur))

\* The pre-hook returned true: the op is skipped.
SkipOp ==
  /\ status = "running"
  /\ HasOp(Cur)
  /\ LET fr == Cur
         op == OpAt(fr)
         pre == checkBeforeEnc(fr, op, OpIndex(fr))
     IN /\ pre.skip
        /\ stk' = [stk EXCEPT ![Len(stk)] =
                     [fr EXCEPT !.index = OpIndex(fr), !.yielded = pre.yielded]]
        /\ trace' = trace \o preEvents(fr, op, OpIndex(fr), TRUE)
  /\ UNCHANGED <<fn, prev, m, status, failedOp, newVarIdx, entryMem>>

\* The pre-hook of a reduction body threw: the exception carries the
\* linalg.generic.
PreHookThrow ==
  /\ status = "running"
  /\ HasOp(Cur)
  /\ LET fr == Cur
         op == OpAt(fr)
         pre == checkBeforeEnc(fr, op, OpIndex(fr))
     IN /\ pre.throw
        /\ stk' = unwind(stk, fr.st, "unsupported")
        /\ trace' = trace \o preEvents(fr, op, OpIndex(fr), FALSE)
        /\ failedOp' = fr.owner
  /\ status' = "unsupported"
  /\ entryMem' = <<entryMem[1]>>
  /\ UNCHANGED <<fn, prev, m, newVarIdx>>

\* No ENCODE of the chain matches the op.
EncodeUnsupportedOp ==
  /\ status = "running"
  /\ HasOp(Cur)
  /\ LET fr == Cur
         op == OpAt(fr)
         pre == checkBeforeEnc(fr, op, OpIndex(fr))
         thrown == throwUnsupported(stk, op)
     IN /\ ~pre.skip /\ ~pre.throw
        /\ op.kind \notin ChainKinds
        /\ stk' = thrown.stk
        /\ status' = thrown.status
        /\ failedOp' = thrown.failedOp
        /\ entryMem' = SubSeq(entryMem, 1, Len(thrown.stk))
        /\ trace' = trace \o preEvents(fr, op, OpIndex(fr), FALSE)
                          \o <<Ev("nomatch", fr.owner, OpIndex(fr), op.id, FALSE)>>
  /\ UNCHANGED <<fn, prev, m, newVarIdx>>

\* encodeBlock reached the end of the function body: encode returns.
EncodeDone ==
  /\ status = "running"
  /\ Len(stk) = 1
  /\ ~HasOp(Cur)
  /\ status' = "done"
  /\ UNCHANGED <<fn, prev, stk, m, trace, failedOp, newVarIdx, entryMem>>

\* ------------------------------------------------------------ the programs
\* The function with the given bindings: pairs <<name, x>>.
Fun(pairs) ==
  [k \in {pairs[i][1] : i \in DOMAIN pairs} |->
     pairs[CHOOSE i \in DOMAIN pairs : pairs[i][1] = k][2]]

\* A function to encode: the types of its values, its block, the registers
\* of its arguments and the Memory its memref arguments point into.
MkFn(name, ty, blk, regs, mem) ==
  [name |-> name, ty |-> Fun(ty), blk |-> blk, regs |-> Fun(regs), mem |-> mem]

Dims == 1 .. MaxDim
\* The static shapes of rank 0, 1 and 2.
StaticShapes == {<<>>} \cup {<<a>> : a \in Dims} \cup {<<a, b>> : a, b \in Dims}
\* The dims of a tensor of a static shape: a rank-0 tensor has dims [1].
ShapeDims(shape) == IF shape = <<>> THEN <<1>> ELSE shape
\* An argument of index type with value x.
ArgIndex(x) == MkScalar("Index", "index", [v \in Vals(0) |-> x])
ArgFloat(name) == MkScalar("Float", "f32", [v \in Vals(0) |-> name])
\* The block of a memref argument.
ArgBlock(name, size) ==
  MkBlock(size, TRUE, [i \in Idx |-> name \o ToString(<<i>>)])

Return(args) == MkOp("ret", "return", <<>>, args)

\* %r = kind %A, %B ; %s = arith.mulf %A, %A ; return %r, %s
ProgBinary(kind, sa, sb, da, db) ==
  MkFn("binary",
    <<<<"A", TyTensor(sa)>>, <<"B", TyTensor(sb)>>, <<"r", TyTensor(sb)>>,
      <<"s", TyTensor(sa)>>>>,
    <<MkOp("o1", kind, <<"r">>, <<"A", "B">>),
      MkOp("o2", "arith.mulf", <<"s">>, <<"A", "A">>),
      Return(<<"r", "s">>)>>,
    <<<<"A", ArgTensor("A", da)>>, <<"B", ArgTensor("B", db)>>>>,
    <<>>)

\* A linalg.generic.
Generic(id, res, ins, outs, maps, iters, bargs, body) ==
  [MkOp(id, "linalg.generic", res, ins \o outs) EXCEPT
     !.nin = Len(ins), !.maps = maps, !.iters = iters,
     !.bargs = bargs, !.body = body]

\* The reduction bodies: %s = addf of %a and %acc in either order, with or
\* without an op before it, and one that uses %acc twice.
RedBody(form) ==
  IF form = "acc-v" THEN
    <<MkOp("b1", "arith.addf", <<"s">>, <<"acc", "a">>),
      MkOp("b2", "linalg.yield", <<>>, <<"s">>)>>
  ELSE IF form = "v-acc" THEN
    <<MkOp("b1", "arith.addf", <<"s">>, <<"a", "acc">>),
      MkOp("b2", "linalg.yield", <<>>, <<"s">>)>>
  ELSE IF form = "sq" THEN
    <<MkOp("b0", "arith.mulf", <<"t">>, <<"a", "a">>),
      MkOp("b1", "arith.addf", <<"s">>, <<"t", "acc">>),
      MkOp("b2", "linalg.yield", <<>>, <<"s">>)>>
  ELSE IF form = "acc-twice" THEN
    <<MkOp("b0", "arith.mulf", <<"t">>, <<"a", "acc">>),
      MkOp("b1", "arith.addf", <<"s">>, <<"t", "acc">>),
      MkOp("b2", "linalg.yield", <<>>, <<"s">>)>>
  ELSE
    <<MkOp("b1", "arith.mulf", <<"s">>, <<"a", "acc">>),
      MkOp("b2", "linalg.yield", <<>>, <<"s">>)>>

RedForms == {"acc-v", "v-acc", "sq", "acc-twice", "mul"}

\* %R = linalg.generic ins(%A) outs(%O) { body } ; return %R
\* out is "row" : (i, j) -> (i), "all2" : (i, j) -> (0), "all1" : (i) -> (0).
ProgReduce(out, form, d1, d2) ==
  LET inShape == IF out = "all1" THEN <<d1>> ELSE <<d1, d2>>
      outShape == IF out = "row" THEN <<d1>> ELSE <<1>>
      n == Len(inShape)
      outMap == IF out = "row" THEN AMap(2, <<ADim(0)>>)
                ELSE AMap(n, <<AConst(0)>>)
      iters == IF out = "row" THEN <<"parallel", "reduction">>
               ELSE [i \in 1 .. n |-> "reduction"]
  IN
  MkFn("reduce",
    <<<<"A", TyTensor(inShape)>>, <<"O", TyTensor(outShape)>>,
      <<"R", TyTensor(outShape)>>, <<"a", TyF32>>, <<"acc", TyF32>>,
      <<"s", TyF32>>, <<"t", TyF32>>>>,
    <<Generic("g", <<"R">>, <<"A">>, <<"O">>, <<IdMap(n), outMap>>, iters,
              <<"a", "acc">>, RedBody(form)),
      Return(<<"R">>)>>,
    <<<<"A", ArgTensor("A", inShape)>>, <<"O", ArgTensor("O", outShape)>>>>,
    <<>>)

\* The pad_tensor bodies: yield a constant, or the element of the source at
\* the index, which is undefined outside the source.
PadBody(form) ==
  IF form = "cst" THEN
    <<[MkOp("b1", "arith.constant_float", <<"c">>, <<>>) EXCEPT !.ints = <<7>>],
      MkOp("b2", "linalg.yield", <<>>, <<"c">>)>>
  ELSE
    <<MkOp("b1", "tensor.extract", <<"c">>, <<"A", "i">>),
      MkOp("b2", "linalg.yield", <<>>, <<"c">>)>>

\* %R = linalg.pad_tensor %A low[l] high[h] { body } : tensor<d> to
\* tensor<rd> ; return %R.  The result type is dynamic, the padded size, or
\* one more.  With byValue the low pad is the argument %L.
ProgPad(d, l, h, form, rty, byValue) ==
  LET rd == IF rty = "dyn" THEN kDynamicSize
            ELSE IF rty = "match" THEN d + l + h ELSE d + l + h + 1
  IN
  MkFn("pad",
    <<<<"A", TyTensor(<<d>>)>>, <<"R", TyTensor(<<rd>>)>>, <<"L", TyIndex>>,
      <<"i", TyIndex>>, <<"c", TyF32>>>>,
    <<[MkOp("p", "linalg.pad_tensor", <<"R">>, <<"A">>) EXCEPT
         !.mixed = <<IF byValue THEN <<MixedVal("L")>> ELSE <<MixedAttr(l)>>,
                     <<MixedAttr(h)>>>>,
         !.bargs = <<"i">>,
         !.body = PadBody(form)],
      Return(<<"R">>)>>,
    <<<<"A", ArgTensor("A", <<d>>)>>, <<"L", ArgIndex(l)>>>>,
    <<>>)

Pads == 0 .. MaxPad

\* The two-axis form: %A : tensor<d x 1>, low [l, 0], high [h, 1].
ProgPad2(d, l, h) ==
  MkFn("pad2",
    <<<<"A", TyTensor(<<d, 1>>)>>, <<"R", TyTensor(<<d + l + h, 2>>)>>,
      <<"i", TyIndex>>, <<"j", TyIndex>>, <<"c", TyF32>>>>,
    <<[MkOp("p", "linalg.pad_tensor", <<"R">>, <<"A">>) EXCEPT
         !.mixed = <<<<MixedAttr(l), MixedAttr(0)>>,
                     <<MixedAttr(h), MixedAttr(1)>>>>,
         !.bargs = <<"i", "j">>,
         !.body = PadBody("cst")],
      Return(<<"R">>)>>,
    <<<<"A", ArgTensor("A", <<d, 1>>)>>>>,
    <<>>)

\* %R = tensor.generate %N { tensor.extract %A[%i] ; tensor.yield } ; return
\* The result type is static (tensor<d>) or dynamic with extent %N = d.
ProgGenerate(d, da, dynamic) ==
  MkFn("generate",
    <<<<"A", TyTensor(<<da>>)>>, <<"N", TyIndex>>, <<"i", TyIndex>>,
      <<"R", TyTensor(IF dynamic THEN <<kDynamicSize>> ELSE <<d>>)>>,
      <<"e", TyF32>>>>,
    <<[MkOp("gen", "tensor.generate", <<"R">>,
            IF dynamic THEN <<"N">> ELSE <<>>) EXCEPT
         !.bargs = <<"i">>,
         !.body = <<MkOp("b1", "tensor.extract", <<"e">>, <<"A", "i">>),
                    MkOp("b2", "tensor.yield", <<>>, <<"e">>)>>],
      Return(<<"R">>)>>,
    <<<<"A", ArgTensor("A", <<da>>)>>, <<"N", ArgIndex(d)>>>>,
    <<>>)

\* tests/opts/fusion-tensor: the fused generic and the two generics it
\* replaces, in one function.
\*   %I0 = init_tensor ; %R1 = generic ins(%A, %B, %C) outs(%I0)
\*                             { mulf(addf(a, b), c) }
\*   %I1 = init_tensor ; %T  = generic ins(%A, %B) outs(%I1) { addf(a, b) }
\*   %I2 = init_tensor ; %R2 = generic ins(%T, %C) outs(%I2) { mulf(t, c) }
\*   return %R1, %R2
ProgFusion(shape) ==
  LET n == Len(shape)
      par == [i \in 1 .. n |-> "parallel"]
      init(id, res) == MkOp(id, "linalg.init_tensor", <<res>>, <<>>)
      f32s(names) == [i \in 1 .. Len(names) |-> <<names[i], TyF32>>]
      tens(names) == [i \in 1 .. Len(names) |-> <<names[i], TyTensor(shape)>>]
  IN
  MkFn("fusion",
    tens(<<"A", "B", "C", "I0", "I1", "I2", "R1", "T", "R2">>)
    \o f32s(<<"a1", "b1", "c1", "o1", "t1", "u1", "a2", "b2", "o2", "t2",
              "t3", "c3", "o3", "u3">>),
    <<init("i0", "I0"),
      Generic("g1", <<"R1">>, <<"A", "B", "C">>, <<"I0">>,
              [i \in 1 .. 4 |-> IdMap(n)], par, <<"a1", "b1", "c1", "o1">>,
              <<MkOp("g1.1", "arith.addf", <<"t1">>, <<"a1", "b1">>),
                MkOp("g1.2", "arith.mulf", <<"u1">>, <<"t1", "c1">>),
                MkOp("g1.3", "linalg.yield", <<>>, <<"u1">>)>>),
      init("i1", "I1"),
      Generic("g2", <<"T">>, <<"A", "B">>, <<"I1">>,
              [i \in 1 .. 3 |-> IdMap(n)], par, <<"a2", "b2", "o2">>,
              <<MkOp("g2.1", "arith.addf", <<"t2">>, <<"a2", "b2">>),
                MkOp("g2.2", "linalg.yield", <<>>, <<"t2">>)>>),
      init("i2", "I2"),
      Generic("g3", <<"R2">>, <<"T", "C">>, <<"I2">>,
              [i \in 1 .. 3 |-> IdMap(n)], par, <<"t3", "c3", "o3">>,
              <<MkOp("g3.1", "arith.mulf", <<"u3">>, <<"t3", "c3">>),
                MkOp("g3.2", "linalg.yield", <<>>, <<"u3">>)>>),
      Return(<<"R1", "R2">>)>>,
    <<<<"A", ArgTensor("A", shape)>>, <<"B", ArgTensor("B", shape)>>,
      <<"C", ArgTensor("C", shape)>>>>,
    <<>>)

\* A parallel generic over operands of dims da and db, with a scalar operand
\* and a body that reads its index:
\*   %R = generic ins(%A, %F) outs(%B)
\*          { %i = linalg.index 0 ; %e = tensor.extract %A[%i] ;
\*            %s = addf %e, %f ; yield %s }
ProgIndexed(da, db) ==
  MkFn("indexed",
    <<<<"A", TyTensor(<<kDynamicSize>>)>>, <<"B", TyTensor(<<kDynamicSize>>)>>,
      <<"F", TyF32>>, <<"R", TyTensor(<<kDynamicSize>>)>>, <<"a", TyF32>>,
      <<"f", TyF32>>, <<"o", TyF32>>, <<"i", TyIndex>>, <<"e", TyF32>>,
      <<"s", TyF32>>, <<"s2", TyF32>>>>,
    <<Generic("g", <<"R">>, <<"A", "F">>, <<"B">>,
              <<IdMap(1), AMap(1, <<>>), IdMap(1)>>, <<"parallel">>,
              <<"a", "f", "o">>,
              <<[MkOp("b0", "linalg.index", <<"i">>, <<>>) EXCEPT !.ints = <<0>>],
                MkOp("b1", "tensor.extract", <<"e">>, <<"A", "i">>),
                MkOp("b2", "arith.addf", <<"s">>, <<"e", "f">>),
                MkOp("b3", "linalg.yield", <<>>, <<"s">>)>>),
      MkOp("o2", "arith.mulf", <<"s2">>, <<"F", "F">>),
      Return(<<"R">>)>>,
    <<<<"A", ArgTensor("A", <<da>>)>>, <<"B", ArgTensor("B", <<db>>)>>,
      <<"F", ArgFloat("F")>>>>,
    <<>>)

\* Functions over a memref argument %M : memref<d> and an index %K = k.
\*   top-store  : %c = constant ; memref.store %c, %M[%K] ;
\*                %T = memref.tensor_load %M ; return %T
\*   top-alloc  : %P = memref.alloc ; memref.store %c, %P[%K] ;
\*                %T = memref.tensor_load %P ; return %T
\*   body-store : %R = tensor.generate { memref.store %c, %M[%i] ; yield %c }
\*   body-load  : %R = tensor.generate { %T = memref.tensor_load %M ;
\*                                       %e = tensor.extract %T[%i] ; yield %e }
\*   body-alloc : %R = tensor.generate { %P = memref.alloc ; yield %c }
\*   buffer     : %P = memref.alloc ;
\*                linalg.generic ins(%M) outs(%P) { mulf(x, x) } ;
\*                %T = memref.tensor_load %P ; return %T
ProgMemory(form, d, k) ==
  LET cst(id) == [MkOp(id, "arith.constant_float", <<"c">>, <<>>) EXCEPT
                    !.ints = <<7>>]
      gen(body) == [MkOp("gen", "tensor.generate", <<"R">>, <<>>) EXCEPT
                      !.bargs = <<"i">>, !.body = body]
      blk ==
        IF form = "top-store" THEN
          <<cst("o0"), MkOp("o1", "memref.store", <<>>, <<"c", "M", "K">>),
            MkOp("o2", "memref.tensor_load", <<"T">>, <<"M">>),
            Return(<<"T">>)>>
        ELSE IF form = "top-alloc" THEN
          <<cst("o0"), MkOp("o1", "memref.alloc", <<"P">>, <<>>),
            MkOp("o2", "memref.store", <<>>, <<"c", "P", "K">>),
            MkOp("o3", "memref.tensor_load", <<"T">>, <<"P">>),
            Return(<<"T">>)>>
        ELSE IF form = "body-store" THEN
          <<cst("o0"),
            gen(<<MkOp("b1", "memref.store", <<>>, <<"c", "M", "i">>),
                  MkOp("b2", "tensor.yield", <<>>, <<"c">>)>>),
            Return(<<"R">>)>>
        ELSE IF form = "body-load" THEN
          <<gen(<<MkOp("b1", "memref.tensor_load", <<"T">>, <<"M">>),
                  MkOp("b2", "tensor.extract", <<"e">>, <<"T", "i">>),
                  MkOp("b3", "tensor.yield", <<>>, <<"e">>)>>),
            Return(<<"R">>)>>
        ELSE IF form = "body-alloc" THEN
          <<cst("o0"),
            gen(<<MkOp("b1", "memref.alloc", <<"P">>, <<>>),
                  MkOp("b2", "tensor.yield", <<>>, <<"c">>)>>),
            Return(<<"R">>)>>
        ELSE
          <<MkOp("o1", "memref.alloc", <<"P">>, <<>>),
            Generic("g", <<>>, <<"M">>, <<"P">>, <<IdMap(1), IdMap(1)>>,
                    <<"parallel">>, <<"x", "y">>,
                    <<MkOp("b1", "arith.mulf", <<"u">>, <<"x", "x">>),
                      MkOp("b2", "linalg.yield", <<>>, <<"u">>)>>),
            MkOp("o3", "memref.tensor_load", <<"T">>, <<"P">>),
            Return(<<"T">>)>>
  IN
  MkFn("memory",
    <<<<"M", TyMemRef(<<d>>)>>, <<"P", TyMemRef(<<d>>)>>, <<"K", TyIndex>>,
      <<"T", TyTensor(<<d>>)>>, <<"R", TyTensor(<<d>>)>>, <<"c", TyF32>>,
      <<"e", TyF32>>, <<"i", TyIndex>>, <<"x", TyF32>>, <<"y", TyF32>>,
      <<"u", TyF32>>>>,
    blk,
    <<<<"M", MkMemRef("f32", <<d>>, 1)>>, <<"K", ArgIndex(k)>>>>,
    <<ArgBlock("M", d)>>)

\* Functions with an op no encoder matches (a call), in the function body or
\* in the body of a generic, with ops after it.
\*   top  : %r = addf ; call ; %s = mulf ; return %r, %s
\*   body : %R = generic ins(%A) outs(%B) { call ; %t = addf ; yield } ;
\*          %s = mulf ; return %R
\*   first: call ; return %A
ProgUnsupported(form, d) ==
  LET call(id) == MkOp(id, "std.call", <<"x">>, <<"A">>)
      blk ==
        IF form = "top" THEN
          <<MkOp("o1", "arith.addf", <<"r">>, <<"A", "B">>), call("o2"),
            MkOp("o3", "arith.mulf", <<"s">>, <<"A", "B">>),
            Return(<<"r", "s">>)>>
        ELSE IF form = "body" THEN
          <<Generic("g", <<"R">>, <<"A">>, <<"B">>, <<IdMap(1), IdMap(1)>>,
                    <<"parallel">>, <<"a", "b">>,
                    <<MkOp("b0", "arith.mulf", <<"u">>, <<"a", "a">>),
                      call("b1"),
                      MkOp("b2", "arith.addf", <<"t">>, <<"a", "a">>),
                      MkOp("b3", "linalg.yield", <<>>, <<"t">>)>>),
            MkOp("o3", "arith.mulf", <<"s">>, <<"A", "B">>),
            Return(<<"R">>)>>
        ELSE
          <<call("o1"), Return(<<"A">>)>>
  IN
  MkFn("unsupported",
    <<<<"A", TyTensor(<<d>>)>>, <<"B", TyTensor(<<d>>)>>,
      <<"R", TyTensor(<<d>>)>>, <<"r", TyTensor(<<d>>)>>,
      <<"s", TyTensor(<<d>>)>>, <<"x", TyTensor(<<d>>)>>, <<"a", TyF32>>,
      <<"b", TyF32>>, <<"t", TyF32>>, <<"u", TyF32>>>>,
    blk,
    <<<<"A", ArgTensor("A", <<d>>)>>, <<"B", ArgTensor("B", <<d>>)>>>>,
    <<>>)

\* Functions over a memref argument %M : memref<?x..xf32> of dims dm, in a
\* block that is writable or not (w) and holds all of %M or one element less
\* (fits), and a tensor argument %A : tensor<?x..xf32> of dims dt.
\*   store-load : memref.tensor_store %A, %M ;
\*                %T = memref.tensor_load %M ; return %T
\*   load-store : %U = memref.tensor_load %M ; memref.tensor_store %A, %M ;
\*                %T = memref.tensor_load %M ; return %T
\*   cast       : %P = memref.buffer_cast %A ;
\*                %T = memref.tensor_load %P ; return %T
\*   clone      : %P = memref.clone %M ; memref.tensor_store %A, %M ;
\*                %T = memref.tensor_load %P ; return %T
ProgBuffer(form, dm, dt, w, fits) ==
  LET dyn == [i \in 1 .. Len(dm) |-> kDynamicSize]
      store(id) == MkOp(id, "memref.tensor_store", <<>>, <<"A", "M">>)
      load(id, res, arg) == MkOp(id, "memref.tensor_load", <<res>>, <<arg>>)
      blk ==
        IF form = "store-load" THEN
          <<store("o1"), load("o2", "T", "M"), Return(<<"T">>)>>
        ELSE IF form = "load-store" THEN
          <<load("o1", "U", "M"), store("o2"), load("o3", "T", "M"),
            Return(<<"T">>)>>
        ELSE IF form = "cast" THEN
          <<MkOp("o1", "memref.buffer_cast", <<"P">>, <<"A">>),
            load("o2", "T", "P"), Return(<<"T">>)>>
        ELSE
          <<MkOp("o1", "memref.clone", <<"P">>, <<"M">>), store("o2"),
            load("o3", "T", "P"), Return(<<"T">>)>>
  IN
  MkFn("buffer",
    <<<<"M", TyMemRef(dyn)>>, <<"P", TyMemRef(dyn)>>, <<"A", TyTensor(dyn)>>,
      <<"T", TyTensor(dyn)>>, <<"U", TyTensor(dyn)>>>>,
    blk,
    <<<<"M", MkMemRef("f32", dm, 1)>>, <<"A", ArgTensor("A", dt)>>>>,
    <<[ArgBlock("M", IF fits THEN Prod(dm) ELSE Prod(dm) - 1) EXCEPT
         !.writable = w]>>)

\* func @fold_expand_collapse: %A of dims d x c is expanded with the groups
\* [[0, 1], [2]] into ? x k x c and collapsed back with the same groups.  With
\* twoUnknown the expanded type is ? x ? x c.
ProgReshape(d, k, c, twoUnknown) ==
  MkFn("reshape",
    <<<<"A", TyTensor(<<kDynamicSize, c>>)>>,
      <<"E", TyTensor(<<kDynamicSize, IF twoUnknown THEN kDynamicSize ELSE k, c>>)>>,
      <<"T", TyTensor(<<kDynamicSize, c>>)>>>>,
    <<[MkOp("o1", "linalg.tensor_expand_shape", <<"E">>, <<"A">>) EXCEPT
         !.ints = <<1, 1, 2>>],
      [MkOp("o2", "linalg.tensor_collapse_shape", <<"T">>, <<"E">>) EXCEPT
         !.ints = <<1, 1, 2>>],
      Return(<<"T">>)>>,
    <<<<"A", ArgTensor("A", <<d, c>>)>>>>,
    <<>>)

\* %R = tensor.insert_slice %A into %D [0..] [dims of %A] [1..] followed by
\* %T = tensor.extract_slice %R [0..] [dims of %A] [1..].  With static types
\* the sizes are attributes; otherwise they are the index arguments %s1, %s2
\* and the types are dynamic.
ProgSlice(ds, dd, static) ==
  LET n == Len(ds)
      dyn == [i \in 1 .. n |-> kDynamicSize]
      zeros == [i \in 1 .. n |-> MixedAttr(0)]
      ones == [i \in 1 .. n |-> MixedAttr(1)]
      sizes == [i \in 1 .. n |->
                  IF static THEN MixedAttr(ds[i])
                  ELSE MixedVal(<<"s1", "s2">>[i])]
      params == <<zeros, sizes, ones>>
  IN
  MkFn("slice",
    <<<<"A", TyTensor(IF static THEN ds ELSE dyn)>>,
      <<"D", TyTensor(IF static THEN dd ELSE dyn)>>,
      <<"R", TyTensor(IF static THEN dd ELSE dyn)>>,
      <<"T", TyTensor(IF static THEN ds ELSE dyn)>>,
      <<"s1", TyIndex>>, <<"s2", TyIndex>>>>,
    <<[MkOp("o1", "tensor.insert_slice", <<"R">>, <<"A", "D">>) EXCEPT
         !.mixed = params],
      [MkOp("o2", "tensor.extract_slice", <<"T">>, <<"R">>) EXCEPT
         !.mixed = params],
      Return(<<"T">>)>>,
    <<<<"A", ArgTensor("A", ds)>>, <<"D", ArgTensor("D", dd)>>,
      <<"s1", ArgIndex(ds[1])>>, <<"s2", ArgIndex(ds[Len(ds)])>>>>,
    <<>>)

\* func @add of the tosa test next to the tosa.sub it is compared with:
\* %N = tosa.negate %B ; %P = tosa.add %A, %N ; %Q = tosa.sub %A, %B.
\* Integer tensors hold the values picked by seed.
ProgSubNeg(ety, shape, da, db, seed, quantized) ==
  LET ty == TyTensorOf(shape, ety) IN
  MkFn("subneg",
    <<<<"A", ty>>, <<"B", ty>>, <<"N", ty>>, <<"P", ty>>, <<"Q", ty>>>>,
    <<[MkOp("o1", "tosa.negate", <<"N">>, <<"B">>) EXCEPT
         !.ints = IF quantized THEN <<1>> ELSE <<>>],
      MkOp("o2", "tosa.add", <<"P">>, <<"A", "N">>),
      MkOp("o3", "tosa.sub", <<"Q">>, <<"A", "B">>),
      Return(<<"P", "Q">>)>>,
    IF ety = "f32"
    THEN <<<<"A", ArgTensor("A", da)>>, <<"B", ArgTensor("B", db)>>>>
    ELSE <<<<"A", ArgIntTensor(da, seed)>>,
           <<"B", ArgIntTensor(db, 2 * seed + 1)>>>>,
    <<>>)

\* func @const, one insertion: %c = arith.constant v ; %K = arith.constant k
\* : index ; %R = tensor.insert %c into %A[%K], with %A of d elements of type
\* ety.
ProgInsert(ety, d, k, v) ==
  MkFn("insert",
    <<<<"A", TyTensorOf(<<d>>, ety)>>, <<"R", TyTensorOf(<<d>>, ety)>>,
      <<"c", IF ety = "f32" THEN TyF32 ELSE TyI32>>, <<"K", TyIndex>>>>,
    <<[MkOp("o1", IF ety = "f32" THEN "arith.constant_float"
                  ELSE "arith.constant_int", <<"c">>, <<>>) EXCEPT
         !.ints = <<v>>],
      [MkOp("o2", "arith.constant_index", <<"K">>, <<>>) EXCEPT !.ints = <<k>>],
      MkOp("o3", "tensor.insert", <<"R">>, <<"c", "A", "K">>),
      Return(<<"R">>)>>,
    <<<<"A", IF ety = "f32" THEN ArgTensor("A", <<d>>)
             ELSE ArgIntTensor(<<d>>, 1)>>>>,
    <<>>)

\* %C = linalg.generic ins(%A, %B) outs(%C0) { addf } with one parallel
\* iterator, the identity map for %A and %C0 and, for %B, the map
\* (i) -> (f(i)) named by form.  With rank0 all operands have rank 0.
ProgShape(form, da, db) ==
  LET f == IF form = "id" THEN ADim(0)
           ELSE IF form = "add1" THEN AAdd(ADim(0), AConst(1))
           ELSE IF form = "mul2" THEN AMul(ADim(0), AConst(2))
           ELSE IF form = "const" THEN AConst(1)
           ELSE IF form = "neg" THEN AConst(0 - 1)
           ELSE [k |-> "mod", v |-> 0, sub |-> <<ADim(0), AConst(2)>>]
      shape == IF form = "rank0" THEN <<>> ELSE <<kDynamicSize>>
      maps == IF form = "rank0" THEN [i \in 1 .. 3 |-> AMap(0, <<>>)]
              ELSE <<IdMap(1), AMap(1, <<f>>), IdMap(1)>>
      dims(d) == IF form = "rank0" THEN <<1>> ELSE <<d>>
  IN
  MkFn("shape",
    <<<<"A", TyTensor(shape)>>, <<"B", TyTensor(shape)>>,
      <<"C0", TyTensor(shape)>>, <<"C", TyTensor(shape)>>,
      <<"a", TyF32>>, <<"b", TyF32>>, <<"c", TyF32>>, <<"s", TyF32>>>>,
    <<Generic("g", <<"C">>, <<"A", "B">>, <<"C0">>, maps,
              IF form = "rank0" THEN <<>> ELSE <<"parallel">>,
              <<"a", "b", "c">>,
              <<MkOp("g.1", "arith.addf", <<"s">>, <<"a", "b">>),
                MkOp("g.2", "linalg.yield", <<>>, <<"s">>)>>),
      Return(<<"C">>)>>,
    <<<<"A", ArgTensor("A", dims(da))>>, <<"B", ArgTensor("B", dims(db))>>,
      <<"C0", ArgTensor("C0", dims(da))>>>>,
    <<>>)

\* A parallel generic over %A : tensor<d1 x d2> (identity map) with one or two
\* outputs; the map of an output is the identity ("id") or the transposition
\* (i, j) -> (j, i) ("tr"), and the output has the dims its map asks for.
\*   one output  : { %s = mulf %a, %a ; yield %s }
\*   two outputs : { %s = mulf %a, %a ; yield %s, %a }
ProgPar(outs, d1, d2) ==
  LET tr == AMap(2, <<ADim(1), ADim(0)>>)
      map(i) == IF outs[i] = "id" THEN IdMap(2) ELSE tr
      shape(i) == IF outs[i] = "id" THEN <<d1, d2>> ELSE <<d2, d1>>
      two == Len(outs) = 2
  IN
  MkFn("par",
    <<<<"A", TyTensor(<<d1, d2>>)>>, <<"O1", TyTensor(shape(1))>>,
      <<"R1", TyTensor(shape(1))>>,
      <<"O2", TyTensor(shape(Len(outs)))>>, <<"R2", TyTensor(shape(Len(outs)))>>,
      <<"a", TyF32>>, <<"o1", TyF32>>, <<"o2", TyF32>>, <<"s", TyF32>>>>,
    <<Generic("g", IF two THEN <<"R1", "R2">> ELSE <<"R1">>, <<"A">>,
              IF two THEN <<"O1", "O2">> ELSE <<"O1">>,
              <<IdMap(2)>> \o [i \in 1 .. Len(outs) |-> map(i)],
              <<"parallel", "parallel">>,
              IF two THEN <<"a", "o1", "o2">> ELSE <<"a", "o1">>,
              <<MkOp("g.1", "arith.mulf", <<"s">>, <<"a", "a">>),
                MkOp("g.2", "linalg.yield", <<>>,
                     IF two THEN <<"s", "a">> ELSE <<"s">>)>>),
      Return(IF two THEN <<"R1", "R2">> ELSE <<"R1">>)>>,
    <<<<"A", ArgTensor("A", <<d1, d2>>)>>, <<"O1", ArgTensor("O1", shape(1))>>>>
    \o (IF two THEN <<<<"O2", ArgTensor("O2", shape(2))>>>> ELSE <<>>),
    <<>>)

\* A parallel generic over %A and %O of dims da (zero-sized included) whose
\* body reads a tensor %E of dims de at its index:
\*   %R = generic ins(%A) outs(%O)
\*          { %i = linalg.index 0 ; %e = tensor.extract %E[%i] ; yield %e }
ProgBound(da, de) ==
  MkFn("bound",
    <<<<"A", TyTensor(<<kDynamicSize>>)>>, <<"O", TyTensor(<<kDynamicSize>>)>>,
      <<"E", TyTensor(<<kDynamicSize>>)>>, <<"R", TyTensor(<<kDynamicSize>>)>>,
      <<"a", TyF32>>, <<"o", TyF32>>, <<"i", TyIndex>>, <<"e", TyF32>>>>,
    <<Generic("g", <<"R">>, <<"A">>, <<"O">>, <<IdMap(1), IdMap(1)>>,
              <<"parallel">>, <<"a", "o">>,
              <<[MkOp("b0", "linalg.index", <<"i">>, <<>>) EXCEPT !.ints = <<0>>],
                MkOp("b1", "tensor.extract", <<"e">>, <<"E", "i">>),
                MkOp("b2", "linalg.yield", <<>>, <<"e">>)>>),
      Return(<<"R">>)>>,
    <<<<"A", ArgTensor("A", <<da>>)>>, <<"O", ArgTensor("O", <<da>>)>>,
      <<"E", ArgTensor("E", <<de>>)>>>>,
    <<>>)

\* Generics over %A : tensor<d1 x d2> (identity map, iterators parallel and
\* reduction) whose output map is not a permutation, in the forms
\*   ok        : (i, j) -> (i), { %s = addf %a, %acc ; yield %s }
\*   acc-acc   : (i, j) -> (i), { %s = addf %acc, %acc ; yield %s }
\*   add-early : (i, j) -> (i), { %s = addf %a, %acc ; %t = mulf %a, %a ; yield %s }
\*   yield-arg : (i, j) -> (i), { %s = addf %a, %acc ; yield %a }
\*   sub       : (i, j) -> (i), { %s = subf %a, %acc ; yield %s }
\*   two-outs  : two outputs under (i, j) -> (i), { ... ; yield %s, %o }
\*   row-zero  : (i, j) -> (i, 0), the body of ok
\*   shift     : (i, j) -> (i + 1), the body of ok
ProgReduce2(form, d1, d2) ==
  LET row == AMap(2, <<ADim(0)>>)
      outMap == IF form = "row-zero" THEN AMap(2, <<ADim(0), AConst(0)>>)
                ELSE IF form = "shift"
                THEN AMap(2, <<AAdd(ADim(0), AConst(1))>>)
                ELSE row
      outShape == IF form = "row-zero" THEN <<d1, 1>>
                  ELSE IF form = "shift" THEN <<d1 + 1>>
                  ELSE <<d1>>
      two == form = "two-outs"
      add(x, y) == MkOp("b1", "arith.addf", <<"s">>, <<x, y>>)
      yield(args) == MkOp("b2", "linalg.yield", <<>>, args)
      body == IF form = "acc-acc" THEN <<add("acc", "acc"), yield(<<"s">>)>>
              ELSE IF form = "add-early" THEN
                <<add("a", "acc"),
                  MkOp("b1b", "arith.mulf", <<"t">>, <<"a", "a">>),
                  yield(<<"s">>)>>
              ELSE IF form = "yield-arg" THEN <<add("a", "acc"), yield(<<"a">>)>>
              ELSE IF form = "sub" THEN
                <<MkOp("b1", "arith.subf", <<"s">>, <<"a", "acc">>),
                  yield(<<"s">>)>>
              ELSE IF two THEN <<add("a", "acc"), yield(<<"s", "o">>)>>
              ELSE <<add("a", "acc"), yield(<<"s">>)>>
  IN
  MkFn("reduce2",
    <<<<"A", TyTensor(<<d1, d2>>)>>, <<"O", TyTensor(outShape)>>,
      <<"O2", TyTensor(outShape)>>, <<"R", TyTensor(outShape)>>,
      <<"R2", TyTensor(outShape)>>, <<"a", TyF32>>, <<"o", TyF32>>,
      <<"acc", TyF32>>, <<"s", TyF32>>, <<"t", TyF32>>>>,
    <<Generic("g", IF two THEN <<"R", "R2">> ELSE <<"R">>, <<"A">>,
              IF two THEN <<"O", "O2">> ELSE <<"O">>,
              IF two THEN <<IdMap(2), row, row>> ELSE <<IdMap(2), outMap>>,
              <<"parallel", "reduction">>,
              IF two THEN <<"a", "o", "acc">> ELSE <<"a", "acc">>,
              body),
      Return(IF two THEN <<"R", "R2">> ELSE <<"R">>)>>,
    <<<<"A", ArgTensor("A", <<d1, d2>>)>>, <<"O", ArgTensor("O", outShape)>>,
      <<"O2", ArgTensor("O2", outShape)>>>>,
    <<>>)

\* %T = tensor.extract_slice %A [offs] [szs] [strs] : tensor<src> to
\* tensor<res>, all parameters being attributes; res lists the sizes of the
\* axes the result keeps.
ProgExtract(src, offs, szs, strs, res) ==
  LET attrs(s) == [i \in 1 .. Len(s) |-> MixedAttr(s[i])] IN
  MkFn("extract",
    <<<<"A", TyTensor(src)>>, <<"T", TyTensor(res)>>>>,
    <<[MkOp("o1", "tensor.extract_slice", <<"T">>, <<"A">>) EXCEPT
         !.mixed = <<attrs(offs), attrs(szs), attrs(strs)>>],
      Return(<<"T">>)>>,
    <<<<"A", ArgTensor("A", src)>>>>,
    <<>>)

\* The result types of a slice of the given sizes: every axis kept, or one
\* axis of size 1 dropped.
SliceResults(szs) ==
  {szs} \cup {SubSeq(szs, 1, i - 1) \o SubSeq(szs, i + 1, Len(szs)) :
                i \in {k \in 1 .. Len(szs) : szs[k] = 1 /\ Len(szs) > 1}}

\* %R = tensor.insert_slice %A into %D [%o] [%z] [%t] on tensors of rank 1
\* with dynamic sizes, the parameters being index arguments; with mismatch,
\* %D and %R have rank 2.
ProgInsertSlice(ds, dd, off, size, stride, mismatch) ==
  LET dty == IF mismatch THEN <<kDynamicSize, kDynamicSize>> ELSE <<kDynamicSize>>
      ddims == IF mismatch THEN <<dd, 1>> ELSE <<dd>>
  IN
  MkFn("insslice",
    <<<<"A", TyTensor(<<kDynamicSize>>)>>, <<"D", TyTensor(dty)>>,
      <<"R", TyTensor(dty)>>, <<"o", TyIndex>>, <<"z", TyIndex>>,
      <<"t", TyIndex>>>>,
    <<[MkOp("o1", "tensor.insert_slice", <<"R">>, <<"A", "D">>) EXCEPT
         !.mixed = <<<<MixedVal("o")>>, <<MixedVal("z")>>, <<MixedVal("t")>>>>],
      Return(<<"R">>)>>,
    <<<<"A", ArgTensor("A", <<ds>>)>>, <<"D", ArgTensor("D", ddims)>>,
      <<"o", ArgIndex(off)>>, <<"z", ArgIndex(size)>>, <<"t", ArgIndex(stride)>>>>,
    <<>>)

\* The dims, sizes and strides of the insert_slice programs: small ones, and
\* ones near the largest Index.
SliceDims == Dims \cup {IdxMod - 1}
SliceStrides == {1, 2, IdxMod \div 2}

\* memref.tensor_store %A, %M with %M : memref<?xf32, strided> of dims dm in
\* a writable block that holds every element of %M, and %A of dims dt.
ProgStrided(dm, dt, stride) ==
  MkFn("strided",
    <<<<"M", TyMemRefStrided(<<kDynamicSize>>, <<stride>>)>>,
      <<"A", TyTensor(<<kDynamicSize>>)>>>>,
    <<MkOp("o1", "memref.tensor_store", <<>>, <<"A", "M">>), Return(<<>>)>>,
    <<<<"M", MkMemRef("f32", <<dm>>, 1)>>, <<"A", ArgTensor("A", <<dt>>)>>>>,
    <<ArgBlock("M", (dm - 1) * stride + 1)>>)

\* %T = "tosa.const"() {value = dense<...> : tensor<shape x ety>} ; return %T.
\* A dense attribute of one element is a splat; the other attributes hold
\* the values 1, 2, ... in row-major order.
ProgDense(shape, ety, splat) ==
  MkFn("dense",
    <<<<"T", TyTensorOf(shape, ety)>>>>,
    <<[MkOp("o1", "tosa.const", <<"T">>, <<>>) EXCEPT
         !.ints = IF splat THEN <<5>> ELSE [k \in 1 .. Prod(shape) |-> k]],
      Return(<<"T">>)>>,
    <<>>,
    <<>>)

\* The static shapes of rank 1 to 3 of a dense attribute that is not a
\* splat: at least two elements, fewer elements than an Index has values.
DenseShapes ==
  LET D == 1 .. MaxDim + 1 IN
  {s \in {<<a>> : a \in D} \cup {<<a, b>> : a, b \in D}
         \cup {<<a, b, c>> : a, b, c \in D} :
     2 <= Prod(s) /\ Prod(s) < IdxMod}

\* The reduction program base with the elements of its output operand %O
\* named after o: two programs that differ in o differ only in the initial
\* contents of the accumulator.
ProgReduceInit(base, o) ==
  [base EXCEPT !.name = "redinit",
               !.regs = [@ EXCEPT !["O"] = ArgTensor(o, base.regs["O"].dims)]]

\* %R1, %R2 = linalg.generic ins(%A) outs(%O1, %O2) with one indexing map
\* per output, each of "id", "tr" : (i, j) -> (j, i) and "row" : (i, j) -> (i);
\* the body yields %a * %a for the first output and %a for the second.
ProgMulti(outs, d1, d2) ==
  LET map(i) == IF outs[i] = "id" THEN IdMap(2)
                ELSE IF outs[i] = "tr" THEN AMap(2, <<ADim(1), ADim(0)>>)
                ELSE AMap(2, <<ADim(0)>>)
      shape(i) == IF outs[i] = "id" THEN <<d1, d2>>
                  ELSE IF outs[i] = "tr" THEN <<d2, d1>>
                  ELSE <<d1>>
  IN
  MkFn("multi",
    <<<<"A", TyTensor(<<d1, d2>>)>>, <<"O1", TyTensor(shape(1))>>,
      <<"R1", TyTensor(shape(1))>>,
      <<"O2", TyTensor(shape(2))>>, <<"R2", TyTensor(shape(2))>>,
      <<"a", TyF32>>, <<"o1", TyF32>>, <<"o2", TyF32>>, <<"s", TyF32>>>>,
    <<Generic("g", <<"R1", "R2">>, <<"A">>, <<"O1", "O2">>,
              <<IdMap(2), map(1), map(2)>>,
              <<"parallel", "parallel">>,
              <<"a", "o1", "o2">>,
              <<MkOp("g.1", "arith.mulf", <<"s">>, <<"a", "a">>),
                MkOp("g.2", "linalg.yield", <<>>, <<"s", "a">>)>>),
      Return(<<"R1", "R2">>)>>,
    <<<<"A", ArgTensor("A", <<d1, d2>>)>>,
      <<"O1", ArgTensor("O1", shape(1))>>,
      <<"O2", ArgTensor("O2", shape(2))>>>>,
    <<>>)

Programs ==
  ({ProgBinary("tosa.add", sa, sb, ShapeDims(sa), ShapeDims(sb)) :
        sa \in StaticShapes, sb \in StaticShapes}
   \cup {ProgBinary("arith.addf", sa, sa, ShapeDims(sa), ShapeDims(sa)) :
        sa \in StaticShapes}
   \cup {ProgBinary("arith.addf", <<kDynamicSize>>, <<kDynamicSize>>, <<a>>, <<b>>) :
        a \in Dims, b \in Dims})
  \cup ({ProgReduce(out, form, d1, d2) :
        out \in {"row", "all2"}, form \in RedForms, d1 \in Dims, d2 \in Dims}
   \cup {ProgReduce("all1", form, d1, 1) : form \in RedForms, d1 \in Dims})
  \cup ({ProgPad(d, l, h, form, rty, byValue) :
        d \in Dims, l \in Pads, h \in Pads, form \in {"cst", "extract"},
        rty \in {"dyn", "match", "off"}, byValue \in BOOLEAN})
  \cup {ProgPad2(d, l, h) : d \in Dims, l \in Pads, h \in Pads}
  \cup {ProgGenerate(d, da, dynamic) : d \in Dims, da \in Dims, dynamic \in BOOLEAN}
  \cup {ProgFusion(shape) : shape \in StaticShapes \ {<<>>}}
  \cup {ProgIndexed(da, db) : da \in Dims, db \in Dims}
  \cup ({ProgMemory(form, d, k) :
        form \in {"top-store", "top-alloc", "body-store", "body-load",
        "body-alloc", "buffer"},
        d \in Dims, k \in 0 .. MaxDim})
  \cup {ProgUnsupported(form, d) : form \in {"top", "body", "first"}, d \in Dims}
  \cup {ProgBuffer(form, <<a>>, <<b>>, w, fits) :
        form \in {"store-load", "load-store", "cast", "clone"},
        a \in Dims, b \in Dims, w \in BOOLEAN, fits \in BOOLEAN}
  \cup {ProgBuffer(form, sa, sb, TRUE, TRUE) :
        form \in {"store-load", "load-store", "cast", "clone"},
        sa \in {<<a, b>> : a, b \in Dims}, sb \in {<<a, b>> : a, b \in Dims}}
  \cup {ProgReshape(d, k, c, u) :
        d \in {d \in 0 .. MaxDim + 1 : d * 4 < IdxMod}, k \in {2, 3},
        c \in {4}, u \in BOOLEAN}
  \cup {ProgReshape(d, k, c, FALSE) :
        d \in 0 .. MaxDim + 1, k \in {2, 3}, c \in Dims}
  \cup {ProgSlice(p[1], p[2], static) :
        p \in {q \in (StaticShapes \ {<<>>}) \X StaticShapes :
                 /\ Len(q[1]) = Len(q[2])
                 /\ \A i \in 1 .. Len(q[1]) : q[1][i] <= q[2][i]},
        static \in BOOLEAN}
  \cup {ProgSubNeg(ety, sa, ShapeDims(sa), ShapeDims(sa), seed, FALSE) :
        ety \in {"f32", "i32"}, sa \in StaticShapes, seed \in {0, 3}}
  \cup {ProgSubNeg(ety, <<kDynamicSize>>, <<a>>, <<b>>, 5, q) :
        ety \in {"f32", "i32", "index"}, a \in Dims, b \in Dims, q \in BOOLEAN}
  \cup {ProgInsert(ety, d, k, v) :
        ety \in {"f32", "i32"}, d \in Dims, k \in 0 .. MaxDim, v \in 1 .. 3}
  \cup {ProgShape(form, da, db) :
        form \in {"id", "add1", "mul2", "const", "neg", "mod"},
        da \in Dims, db \in 0 .. MaxDim + 2}
  \cup {ProgShape("rank0", 1, 1)}
  \cup {ProgPar(outs, d1, d2) :
        outs \in {<<"id">>, <<"tr">>, <<"id", "tr">>, <<"tr", "id">>,
                  <<"tr", "tr">>},
        d1 \in Dims, d2 \in Dims}
  \cup {ProgBound(da, de) : da \in 0 .. MaxDim, de \in 0 .. MaxDim + 1}
  \cup {ProgReduce2(form, d1, d2) :
        form \in {"ok", "acc-acc", "add-early", "yield-arg", "sub", "two-outs",
                  "row-zero", "shift"},
        d1 \in Dims, d2 \in Dims}
  \cup {ProgExtract(<<MaxDim, MaxDim>>, <<q[1][1], q[1][2]>>,
                    <<q[1][3], q[1][4]>>, <<q[1][5], q[1][6]>>, q[2]) :
        q \in {r \in ((0 .. 1) \X (0 .. 1) \X Dims \X Dims \X (1 .. 2) \X (1 .. 2))
                      \X (StaticShapes \ {<<>>}) :
                 r[2] \in SliceResults(<<r[1][3], r[1][4]>>)}}
  \cup {ProgExtract(<<MaxDim>>, <<o>>, <<s>>, <<t>>, <<s>>) :
        o \in 0 .. 1, s \in Dims, t \in 1 .. 2}
  \cup {ProgExtract(<<MaxDim, MaxDim>>, <<o>>, <<s>>, <<1>>, <<s>>) :
        o \in 0 .. 1, s \in Dims}
  \cup {ProgInsertSlice(ds, dd, off, size, stride, FALSE) :
        ds \in SliceDims, dd \in SliceDims, off \in 0 .. 2, size \in SliceDims,
        stride \in SliceStrides}
  \cup {ProgInsertSlice(ds, dd, 0, 1, 1, TRUE) : ds \in Dims, dd \in Dims}
  \cup {ProgStrided(dm, dt, stride) : dm \in Dims, dt \in Dims, stride \in 2 .. 3}
  \cup {ProgDense(s, ety, FALSE) :
          s \in DenseShapes, ety \in {"f32", "i32", "i128"}}
  \cup {ProgDense(s, ety, TRUE) :
          s \in StaticShapes \ {<<>>}, ety \in {"f32", "i128"}}
  \cup {ProgReduceInit(ProgReduce(out, form, d1, d2), o) :
          out \in {"row", "all2"}, form \in {"acc-v", "v-acc", "sq"},
          d1 \in Dims, d2 \in Dims, o \in {"O", "P"}}
  \cup {ProgReduceInit(ProgReduce2(form, d1, d2), o) :
          form \in {"ok", "acc-acc"}, d1 \in Dims, d2 \in Dims,
          o \in {"O", "P"}}
  \cup {ProgMulti(outs, d1, d2) :
          outs \in {<<"row", "id">>, <<"row", "tr">>, <<"id", "row">>,
                    <<"tr", "row">>, <<"id", "tr">>, <<"tr", "id">>},
          d1 \in Dims, d2 \in Dims}

\* ------------------------------------------------------- the specification
\* encode(st, fn) is called on a fresh State whose registers hold the
\* arguments; new_var_idx is whatever earlier encodings left.
\* The caller encodes the function once more (as it does for the source and
\* the target of a pair) from the same initial State and Memory.  Nothing of
\* the first encoding is left but the static counter of init_tensor.
EncodeAgain ==
  /\ status # "running"
  /\ prev.runs = 0
  /\ prev' = [runs |-> 1, idx0 |-> prev.idx0, idx1 |-> newVarIdx,
              st |-> stk[1].st, m |-> m, status |-> status,
              failedOp |-> failedOp]
  /\ stk' = <<MkFrame(NewState(fn.regs), fn.blk, "top", "fn", TRUE,
                      [v \in Vals(0) |-> TRUE], Len(fn.blk), "", "")>>
  /\ m' = fn.mem
  /\ trace' = <<>>
  /\ status' = "running"
  /\ failedOp' = ""
  /\ entryMem' = <<fn.mem>>
  /\ UNCHANGED <<fn, newVarIdx>>

Init ==
  /\ fn \in Programs
  /\ stk = <<MkFrame(NewState(fn.regs), fn.blk, "top", "fn", TRUE,
                     [v \in Vals(0) |-> TRUE], Len(fn.blk), "", "")>>
  /\ m = fn.mem
  /\ trace = <<>>
  /\ status = "running"
  /\ failedOp = ""
  /\ newVarIdx \in 0 .. MaxPrior
  /\ entryMem = <<fn.mem>>
  /\ prev = [runs |-> 0, idx0 |-> newVarIdx, idx1 |-> newVarIdx, st |-> <<>>,
             m |-> <<>>, status |-> "", failedOp |-> ""]

Next ==
  \/ EncodeAddF
  \/ EncodeMulF
  \/ EncodeTosaAdd
  \/ EncodeReturn
  \/ EncodeConstantFloat
  \/ EncodeIndex
  \/ EncodeExtract
  \/ EncodeInitTensor
  \/ EncodeAlloc
  \/ EncodeStore
  \/ EncodeTensorLoad
  \/ EncodeTensorStore
  \/ EncodeBufferCast
  \/ EncodeClone
  \/ EncodeCollapseShape
  \/ EncodeExpandShape
  \/ EncodeExtractSlice
  \/ EncodeInsertSlice
  \/ EncodeTosaSub
  \/ EncodeTosaNegate
  \/ EncodeConstantIndex
  \/ EncodeConstantInt
  \/ EncodeInsert
  \/ EncodeTosaConst
  \/ GenericEnter
  \/ GenericExit
  \/ PadEnter
  \/ PadExit
  \/ GenerateEnter
  \/ GenerateExit
  \/ SkipOp
  \/ PreHookThrow
  \/ EncodeUnsupportedOp
  \/ EncodeDone

Spec == Init /\ [][Next]_vars

\* The encoder called twice on the same function.
NextTwice ==
  \/ Next
  \/ EncodeAgain

SpecTwice == Init /\ [][NextTwice]_vars

\* ---------------------------------------------------------------- claims
\* The State of the function body, and its registers once encode returned.
TopSt == stk[1].st
Done == status = "done"
\* The op of the function body with the given id.
FnOp(id) == fn.blk[CHOOSE k \in 1 .. Len(fn.blk) : fn.blk[k].id = id]
\* The ops of the block owned by b (fn is the function body).
BlockOf(b) == IF b = "fn" THEN fn.blk ELSE FnOp(b).body
\* The calls encodeBlock made for the block owned by b, in order.
EventsOf(b) == SelectSeq(trace, LAMBDA e : e.blk = b)
Blocks == {trace[k].blk : k \in DOMAIN trace}

\* C1 -- UB monotonicity: a step of the encoding only conjoins into
\* wellDefinedPred.  In every activation that exists before and after the
\* step (the State of the function, the copy a loop body is encoded in) the
\* predicate after the step implies the predicate before it, under every
\* valuation of the induction variables; and a step that makes the predicate
\* of the function false does not abort the encoding.
C1_UBMonotone ==
  [][/\ \A i \in 1 .. Min2(Len(stk), Len(stk')) :
          \A v \in DOMAIN stk[i].st.wd : stk'[i].st.wd[v] => stk[i].st.wd[v]
     /\ (TopSt.wd[<<>>] /\ ~stk'[1].st.wd[<<>>]) => status' = "running"]_vars

\* C1 witness: the first op of the function is undefined (operands of
\* different dynamic sizes), a later op with a true predicate was encoded
\* after it, and the encoding finished with the predicate still false.
C1_Witness ==
  /\ Done
  /\ fn.name = "binary"
  /\ {"o1", "o2"} \subseteq DOMAIN TopSt.wdOf
  /\ ~TopSt.wdOf["o1"][<<>>]
  /\ TopSt.wdOf["o2"][<<>>]
  /\ ~TopSt.wd[<<>>]

\* C2 -- encodeBlock is sequential.  In a block encoded with hooks the calls
\* are, op by op in block order: the pre-hook with the op's 0-based position
\* (skipped ops counted); after a pre-hook that returned true the next call
\* is the pre-hook of the next op; after one that returned false the next
\* call is one encoder (or the throw of the chain) for the same op, and after
\* the encoder the post-hook, once, for the same op; then the next op.  In the
\* function body (no hooks) the encoders run in block order.
C2_BlockOrder ==
  \A b \in Blocks :
    LET E == EventsOf(b)
        ops == BlockOf(b)
    IN
    IF b = "fn" THEN
      \A k \in 1 .. Len(E) :
        /\ E[k].e \in {"enc", "nomatch"}
        /\ E[k].i = k - 1
        /\ E[k].op = ops[k].id
    ELSE
      /\ E[1].e = "pre" /\ E[1].i = 0
      /\ \A k \in 1 .. Len(E) :
           /\ E[k].i < Len(ops) /\ E[k].op = ops[E[k].i + 1].id
           /\ E[k].e = "pre" /\ k < Len(E) =>
                IF E[k].skip
                THEN E[k + 1].e = "pre" /\ E[k + 1].i = E[k].i + 1
                ELSE E[k + 1].e \in {"enc", "nomatch"} /\ E[k + 1].i = E[k].i
           /\ E[k].e = "enc" =>
                /\ E[k - 1].e = "pre" /\ ~E[k - 1].skip /\ E[k - 1].i = E[k].i
                /\ k < Len(E) => E[k + 1].e = "post" /\ E[k + 1].i = E[k].i
           /\ E[k].e = "post" =>
                /\ E[k - 1].e = "enc" /\ E[k - 1].i = E[k].i
                /\ k < Len(E) => E[k + 1].e = "pre" /\ E[k + 1].i = E[k].i + 1
           /\ E[k].e = "nomatch" => k = Len(E)

\* C2 witness: a loop body of three ops was encoded to its end: two ops went
\* through pre-hook, encoder and post-hook, the third (the yield, position 2)
\* was skipped by the pre-hook.
C2_Witness ==
  /\ Done
  /\ fn.name = "fusion"
  /\ LET E == EventsOf("g1") IN
     /\ Len(E) = 7
     /\ E[4].e = "pre" /\ E[4].i = 1 /\ E[5].e = "enc" /\ E[6].e = "post"
     /\ E[7].e = "pre" /\ E[7].i = 2 /\ E[7].skip

\* C3 -- an op no encoder matches raises Unsupported carrying that op, and
\* the encoding stops there: the throw is the last call of the encoding (no
\* later op is encoded, in the block or outside it, and the post-hook is not
\* called for the op), the return values are what they were, and nothing
\* changes once the exception is raised.
C3_UnsupportedStops ==
  /\ [](\A k \in DOMAIN trace :
          trace[k].e = "nomatch" =>
            /\ k = Len(trace)
            /\ status = "unsupported"
            /\ failedOp = trace[k].op
            /\ \A j \in DOMAIN trace :
                 ~(trace[j].e = "post" /\ trace[j].op = trace[k].op
                   /\ trace[j].blk = trace[k].blk))
  /\ [][/\ (/\ status = "running"
            /\ HasOp(Cur)
            /\ OpAt(Cur).kind \notin ChainKinds
            /\ ~checkBeforeEnc(Cur, OpAt(Cur), OpIndex(Cur)).skip
            /\ ~checkBeforeEnc(Cur, OpAt(Cur), OpIndex(Cur)).throw)
           => /\ status' = "unsupported"
              /\ failedOp' = OpAt(Cur).id
              /\ stk'[1].st.retValues = TopSt.retValues
              /\ stk'[1].st.regs = TopSt.regs
        /\ status = "unsupported" => UNCHANGED vars]_vars

\* C3 witness: the call in the body of a generic was reached after another
\* op of the body had been encoded; the exception carries the call, and the
\* ops after it, in the body and in the function, were not encoded.
C3_Witness ==
  /\ status = "unsupported"
  /\ fn.name = "unsupported"
  /\ failedOp = "b1"
  /\ trace[Len(trace)].e = "nomatch"
  /\ \E k \in DOMAIN trace : trace[k].e = "post" /\ trace[k].op = "b0"
  /\ TopSt.retValues = <<>>

\* C4 -- write-once register file: in a function that defines every IR value
\* once, no encoder binds a value that the State it works on already binds;
\* neither the function's State nor the copy a loop body is encoded in ever
\* records a double binding.
C4_WriteOnce ==
  /\ \A i \in 1 .. Len(stk) : stk[i].st.err # "double-bind"
  /\ status = "crash" => TopSt.err # "double-bind"

\* C4 witness: the fused program finished: the block arguments of three
\* generics were bound before their bodies were encoded, their results after.
C4_Witness ==
  /\ Done
  /\ fn.name = "fusion"
  /\ {"R1", "T", "R2"} \subseteq DOMAIN TopSt.regs
  /\ \E k \in DOMAIN trace : trace[k].blk = "g3" /\ trace[k].e = "post"

\* C5 -- read-only encoding: while the body of a generic, generate or pad is
\* encoded (encodeMemWriteOps = false) the Memory is the Memory the body
\* started with: the same blocks, contents and writable flags.
C5_BodyMemoryUnchanged ==
  \A i \in 2 .. Len(stk) : ~stk[i].memw => m = entryMem[i]

\* C6 -- retValues is empty as long as no return was encoded, and encoding
\* return appends the values registered for its operands, in operand order,
\* and changes nothing else: registers, wellDefinedPred, scopes and Memory
\* stay as they were.
C6_ReturnLatches ==
  /\ []((\A k \in DOMAIN trace : ~(trace[k].e = "enc" /\ trace[k].op = "ret"))
          => TopSt.retValues = <<>>)
  /\ [][(Ready("return") /\ status' = "running") =>
          LET op == OpAt(Cur) IN
          /\ stk'[Len(stk)].st.retValues =
               Cur.st.retValues \o [i \in 1 .. Len(op.args) |-> Cur.st.regs[op.args[i]]]
          /\ stk'[Len(stk)].st.regs = Cur.st.regs
          /\ stk'[Len(stk)].st.wd = Cur.st.wd
          /\ stk'[Len(stk)].st.wdOf = Cur.st.wdOf
          /\ stk'[Len(stk)].st.scopes = Cur.st.scopes
          /\ m' = m]_vars

\* C6 witness: a return of two different values was encoded.
C6_Witness ==
  /\ Done
  /\ Len(TopSt.retValues) = 2
  /\ TopSt.retValues[1] = TopSt.regs["r"]
  /\ TopSt.retValues[2] = TopSt.regs["s"]
  /\ TopSt.retValues[1] # TopSt.retValues[2]

\* NumPy broadcasting of static shapes, right-aligned; a rank-0 tensor has the
\* dims [1].
BcastRank(sa, sb) == Max2(Len(ShapeDims(sa)), Len(ShapeDims(sb)))
\* The size of shape s on axis j of a result of rank rr (1 where s has no axis).
BcastDimAt(s, rr, j) ==
  LET d == ShapeDims(s)
      own == j - (rr - Len(d))
  IN IF own >= 1 THEN d[own] ELSE 1
BcastCompatible(sa, sb) ==
  \A j \in 1 .. BcastRank(sa, sb) :
    LET a == BcastDimAt(sa, BcastRank(sa, sb), j)
        b == BcastDimAt(sb, BcastRank(sa, sb), j)
    IN a = b \/ a = 1 \/ b = 1
BcastDims(sa, sb) ==
  [j \in 1 .. BcastRank(sa, sb) |->
     Max2(BcastDimAt(sa, BcastRank(sa, sb), j), BcastDimAt(sb, BcastRank(sa, sb), j))]
\* The index of the operand of shape s that result index x broadcasts from:
\* x restricted to the operand's own trailing axes, 0 on its size-1 axes.
BcastIdx(s, x) ==
  LET d == ShapeDims(s) IN
  [j \in 1 .. Len(d) |-> IF d[j] = 1 THEN 0 ELSE x[Len(x) - Len(d) + j]]

\* C7 -- broadcast soundness: for static shapes that satisfy NumPy
\* broadcasting, once the binary op is encoded, broadcastTensors gives two
\* tensors of rank max(rank A, rank B) with the broadcast dims, each holding
\* at every result index the element of its operand at the broadcast index,
\* and the registered result of the op is the elementwise sum of those.
C7_BroadcastSound ==
  LET sa == fn.ty["A"].shape
      sb == fn.ty["B"].shape
      bts == broadcastTensors(TopSt, "A", "B")
  IN
  (/\ fn.name = "binary"
   /\ FnOp("o1").kind = "tosa.add"
   /\ BcastCompatible(sa, sb)
   /\ IsBound(TopSt, "r"))
  => /\ bts.ok
     /\ bts.t0.dims = BcastDims(sa, sb)
     /\ bts.t1.dims = BcastDims(sa, sb)
     /\ \A x \in InBoundsIdx(bts.t0) :
          /\ bts.t0.f[x] = ArgElem("A", BcastIdx(sa, x))
          /\ bts.t1.f[x] = ArgElem("B", BcastIdx(sb, x))
          /\ TopSt.regs["r"].f[x] =
               fp_add(ArgElem("A", BcastIdx(sa, x)), ArgElem("B", BcastIdx(sb, x)))

\* The value the body of a reduce program adds up at iteration v: the input
\* element, or its square in the form with a multiplication.
RedTerm(v) ==
  IF FnOp("g").body[1].kind = "arith.mulf"
  THEN fp_mul(ArgElem("A", v), ArgElem("A", v))
  ELSE ArgElem("A", v)

\* C8 -- reduction correctness: for a generic with a single input under the
\* identity map and a body yielding add(acc, v) or add(v, acc), encoded to
\* its end: with iterators [parallel, reduction] and the output map onto the
\* parallel iterator the result has the parallel dim as its dims and its
\* element at every in-bounds p is the sum of v over the whole reduced axis at
\* (p, r); with an output map that sends every iterator to 0 the single
\* element of the result is the sum over the full iteration space.
C8_ReductionSum ==
  (Done /\ fn.name = "reduce") =>
    LET g == FnOp("g")
        dims == fn.regs["A"].dims
        res == TopSt.regs["R"]
    IN
    IF g.maps[2].res[1].k = "dim" THEN
      /\ res.dims = <<dims[1]>>
      /\ \A p \in 0 .. dims[1] - 1 :
           res.f[<<p>>] = fp_sum([r \in 1 .. dims[2] |-> RedTerm(<<p, r - 1>>)])
    ELSE
      /\ res.dims = <<1>>
      /\ res.f[<<0>>] = fp_sum([k \in 1 .. Prod(dims) |-> RedTerm(RowMajor(dims)[k])])

\* C8 witness: a row reduction over a reduced axis of more than one element,
\* in the form add(v, acc), was encoded.
C8_Witness ==
  /\ Done
  /\ fn.name = "reduce"
  /\ FnOp("g").iters = <<"parallel", "reduction">>
  /\ FnOp("g").body[1].args = <<"a", "acc">>
  /\ fn.regs["A"].dims[1] > 1
  /\ fn.regs["A"].dims[2] > 1
  /\ IsBound(TopSt, "R")

\* The low and high padding of the pad programs, per axis.
PadLow ==
  LET lo == FnOp("p").mixed[1] IN
  [i \in 1 .. Len(lo) |-> IF lo[i].isVal THEN fn.regs[lo[i].id].f[<<>>] ELSE lo[i].c]
PadHigh == [i \in 1 .. Len(FnOp("p").mixed[2]) |-> FnOp("p").mixed[2][i].c]

\* C9 -- padding: once a pad_tensor is encoded, the result dims are
\* dim_src + low + high per axis; at every in-bounds index inside the source
\* region the element is the source element at x - low, at every other
\* in-bounds index it is what the padding body yields at that index; and the
\* op is well defined exactly when the body is well defined at every
\* in-bounds index and, for a static result type, its sizes are the computed
\* dims.
C9_Padding ==
  (Done /\ fn.name \in {"pad", "pad2"}) =>
    LET src == fn.regs["A"]
        n == Len(src.dims)
        res == TopSt.regs["R"]
        retty == fn.ty["R"]
        isExtract == FnOp("p").body[1].kind = "tensor.extract"
        inSource(x) == \A i \in 1 .. n :
                          PadLow[i] <= x[i] /\ x[i] < PadLow[i] + src.dims[i]
        bodyValue(x) == IF isExtract THEN ArgElem("A", x) ELSE "cst7"
        bodyDefined(x) == isExtract => \A i \in 1 .. n : x[i] < src.dims[i]
        static == \A i \in 1 .. n : retty.shape[i] # kDynamicSize
    IN
    /\ res.dims = [i \in 1 .. n |-> src.dims[i] + PadLow[i] + PadHigh[i]]
    /\ \A x \in InBoundsIdx(res) :
         res.f[x] = IF inSource(x)
                    THEN ArgElem("A", [i \in 1 .. n |-> x[i] - PadLow[i]])
                    ELSE bodyValue(x)
    /\ TopSt.wd[<<>>] <=>
         /\ \A x \in InBoundsIdx(res) : bodyDefined(x)
         /\ static => \A i \in 1 .. n : res.dims[i] = retty.shape[i]

\* C9 witness: a source of two elements was padded by one element on each
\* side, by a body that is undefined outside the source.
C9_Witness ==
  /\ Done
  /\ fn.name = "pad"
  /\ fn.regs["A"].dims = <<2>>
  /\ PadLow = <<1>> /\ PadHigh = <<1>>
  /\ FnOp("p").body[1].kind = "tensor.extract"
  /\ TopSt.regs["R"].dims = <<4>>
  /\ ~TopSt.wd[<<>>]

\* C10 -- fusion equivalence: for parallel generics with identity maps over
\* tensors of equal dims, the fused generic (mulf(addf(a, b), c)) and the
\* pair of generics it replaces (addf(a, b) into an init_tensor, then
\* mulf(tmp, c)) give results of the same dims and, at every in-bounds index,
\* the same element mul(add(A[x], B[x]), C[x]): a term in which no element of
\* an init_tensor occurs, whatever fresh names the init_tensors got.
C10_FusionEquivalent ==
  (Done /\ fn.name = "fusion") =>
    LET fused == TopSt.retValues[1]
        unfused == TopSt.retValues[2]
    IN
    /\ fused.dims = fn.regs["A"].dims
    /\ unfused.dims = fused.dims
    /\ \A x \in InBoundsIdx(fused) :
         /\ fused.f[x] = unfused.f[x]
         /\ fused.f[x] = fp_mul(fp_add(ArgElem("A", x), ArgElem("B", x)),
                                ArgElem("C", x))

\* C10 witness: both forms were encoded over two-axis tensors, with
\* init_tensors named from a counter that did not start at 0.
C10_Witness ==
  /\ Done
  /\ fn.name = "fusion"
  /\ fn.regs["A"].dims = <<MaxDim, MaxDim>>
  /\ Len(TopSt.retValues) = 2
  /\ newVarIdx = MaxPrior + 3
  /\ TopSt.regs["I0"].f[<<0, 0>>] # TopSt.regs["I1"].f[<<0, 0>>]

\* The function stores %A to %M and loads %M back (the form store-load).
IsStoreLoad ==
  /\ fn.name = "buffer"
  /\ fn.blk[1].kind = "memref.tensor_store"
  /\ fn.blk[2].kind = "memref.tensor_load"

\* C11 as stated -- store/load round trip for every tensor t and memref m:
\* the loaded tensor has the dims of m and, at every in-bounds index, the
\* element of t at that index, whatever the shapes of t and m.
C11_RoundTripAnyShape ==
  (Done /\ IsStoreLoad) =>
    /\ TopSt.regs["T"].dims = fn.regs["M"].dims
    /\ \A x \in InBoundsIdx(TopSt.regs["T"]) :
         TopSt.regs["T"].f[x] = ArgElem("A", x)

\* C11 -- store/load round trip: tensor_store t, m followed by tensor_load m
\* binds a tensor with the dims of m; when the per-dimension shapes of t and
\* m are equal its element at every in-bounds index is t's element at that
\* index, and when in addition m lies within a writable block the sequence
\* is well defined; the block keeps its writable flag until the load is
\* encoded and is read-only from then on.
C11_StoreLoadRoundTrip ==
  IsStoreLoad =>
    LET shapesEqual == fn.regs["A"].dims = fn.regs["M"].dims
        within == Prod(fn.regs["M"].dims) <= fn.mem[1].size
    IN
    /\ ~IsBound(TopSt, "T") => m[1].writable = fn.mem[1].writable
    /\ IsBound(TopSt, "T") => ~m[1].writable
    /\ Done =>
         /\ TopSt.regs["T"].dims = fn.regs["M"].dims
         /\ shapesEqual =>
              \A x \in InBoundsIdx(TopSt.regs["T"]) :
                 TopSt.regs["T"].f[x] = ArgElem("A", x)
         /\ (shapesEqual /\ within /\ fn.mem[1].writable) => TopSt.wd[<<>>]

\* C11 witness: a two-axis tensor was stored to a memref of the same dims in
\* a writable block and loaded back, well defined.
C11_Witness ==
  /\ Done /\ IsStoreLoad
  /\ fn.regs["A"].dims = <<MaxDim, MaxDim>>
  /\ fn.regs["M"].dims = <<MaxDim, MaxDim>>
  /\ fn.mem[1].writable
  /\ TopSt.wd[<<>>]
  /\ TopSt.regs["T"].f[<<1, 1>>] = ArgElem("A", <<1, 1>>)

\* The function expands %A : d x c into ? x k x c and collapses it back.
IsExpandCollapse ==
  /\ fn.name = "reshape"
  /\ fn.ty["E"].shape[2] # kDynamicSize
  /\ fn.regs["A"].dims[1] * fn.regs["A"].dims[2] < IdxMod

\* C12 -- expand then collapse: for a tensor d x c (c = 4 in the test)
\* expanded with the groups [[0, 1], [2]] into ? x k x c (k = 3 in the test)
\* and collapsed with the same groups, wellDefinedPred is false exactly when
\* d is not a multiple of k, and when it holds the result has dims (d, c) and
\* the original element at every in-bounds index.
C12_ExpandCollapse ==
  (Done /\ IsExpandCollapse) =>
    LET d == fn.regs["A"].dims[1]
        k == fn.ty["E"].shape[2]
    IN
    /\ status = "done"
    /\ TopSt.wd[<<>>] <=> (d % k = 0)
    /\ TopSt.wd[<<>>] =>
         /\ TopSt.regs["T"].dims = fn.regs["A"].dims
         /\ TopSt.regs["E"].dims = <<d \div k, k, fn.regs["A"].dims[2]>>
         /\ \A x \in InBoundsIdx(TopSt.regs["T"]) :
              TopSt.regs["T"].f[x] = ArgElem("A", x)

\* C12 witness: a 3 x 2 tensor went through ? x 3 x 2 and came back.
C12_Witness ==
  /\ Done /\ IsExpandCollapse
  /\ fn.regs["A"].dims = <<3, 2>>
  /\ fn.ty["E"].shape[2] = 3
  /\ TopSt.wd[<<>>]
  /\ TopSt.regs["E"].dims = <<1, 3, 2>>
  /\ TopSt.regs["T"].f[<<2, 1>>] = ArgElem("A", <<2, 1>>)

\* C13 -- insert/extract round trip: for every source shape (static size-1
\* dims included) and every destination at least as large, insert_slice of
\* the source at offsets 0 with sizes dims(src) and strides 1 followed by
\* extract_slice with the same parameters yields a tensor with the dims and
\* the elements of the source.
C13_SliceRoundTrip ==
  (Done /\ fn.name = "slice") =>
    /\ TopSt.regs["T"].dims = fn.regs["A"].dims
    /\ \A x \in InBoundsIdx(TopSt.regs["T"]) :
         TopSt.regs["T"].f[x] = ArgElem("A", x)

\* C14 -- tosa.add(a, tosa.negate(b)) and tosa.sub(a, b) on tensors of the
\* same type encode to the same result: equal dims, the same UB condition
\* and the same element at every index; at an in-bounds index the element
\* is add(a, neg(b)) for floats and a - b = a + (0 - b) modulo 2^width for
\* integers.
C14_SubIsAddNegate ==
  (Done /\ fn.name = "subneg") =>
    LET P == TopSt.regs["P"]
        Q == TopSt.regs["Q"]
        A == fn.regs["A"]
        B == fn.regs["B"]
    IN
    /\ P.dims = Q.dims
    /\ isOpWellDefined(TopSt, "o2") = isOpWellDefined(TopSt, "o3")
    /\ P.f = Q.f
    /\ A.dims = B.dims =>
         \A x \in InBoundsIdx(Q) :
            Q.f[x] = IF fn.ty["A"].ety = "f32"
                     THEN fp_add(A.f[x], fp_neg(B.f[x]))
                     ELSE BV(A.f[x] - B.f[x])

\* C14 witness: two 2 x 2 integer tensors whose difference wraps around.
C14_Witness ==
  /\ Done /\ fn.name = "subneg"
  /\ fn.ty["A"] = TyTensorOf(<<MaxDim, MaxDim>>, "i32")
  /\ TopSt.wd[<<>>]
  /\ fn.regs["A"].f[<<0, 0>>] < fn.regs["B"].f[<<0, 0>>]
  /\ TopSt.regs["P"].f[<<0, 0>>] = TopSt.regs["Q"].f[<<0, 0>>]

\* C15 -- tensor.insert accepts a scalar of the element type of the tensor,
\* an integer as well as a float: the encoding does not stop on a tag
\* mismatch, the result holds the scalar at the index and the destination
\* elsewhere, and an out-of-bounds index is undefined behaviour, not a failure.
C15_InsertScalar ==
  (fn.name = "insert" /\ status # "running") =>
    LET k == FnOp("o2").ints[1]
        R0 == TopSt.regs["R"]
    IN
    /\ status = "done"
    /\ R0.dims = fn.regs["A"].dims
    /\ R0.f[<<k>>] = TopSt.regs["c"].f[<<>>]
    /\ \A x \in Vals(1) \ {<<k>>} : R0.f[x] = fn.regs["A"].f[x]
    /\ TopSt.wd[<<>>] <=> (k < fn.regs["A"].dims[1])

\* The fresh symbol init_tensor_i[x] renamed to init_tensor_(i + k)[x];
\* every other element is left as it is.
RenameElem(e, k) ==
  LET fresh == {<<i, x>> \in (0 .. newVarIdx) \X (Vals(1) \cup Vals(2)) :
                  e = ArgElem("init_tensor_" \o ToString(i), x)}
  IN IF fresh = {} THEN e
     ELSE LET p == CHOOSE q \in fresh : TRUE
          IN ArgElem("init_tensor_" \o ToString(p[1] + k), p[2])
\* A value with its float elements renamed.
RenameVal(val, k) ==
  IF val.ety = "f32" /\ val.tag \in {"Tensor", "Float"}
  THEN [val EXCEPT !.f = [x \in DOMAIN val.f |-> RenameElem(val.f[x], k)]]
  ELSE val
\* The results of the init_tensor ops of the function body that st binds.
InitResults(st) ==
  {fn.blk[j].res[1] : j \in {q \in 1 .. Len(fn.blk) :
      fn.blk[q].kind = "linalg.init_tensor" /\ IsBound(st, fn.blk[q].res[1])}}
\* The name of the fresh tensor bound to r: its element at the origin.
FreshName(st, r) ==
  st.regs[r].f[[i \in 1 .. Len(st.regs[r].dims) |-> 0]]

\* C16 -- determinism: encoding the same function twice from equal initial
\* States stops the same way and yields equal registers, wellDefinedPred,
\* retValues and memory up to the renaming of the fresh symbols; the only
\* state that survives is the init_tensor counter, which grows by one per
\* init_tensor, so that all the init_tensor names are distinct.
C16_Deterministic ==
  (prev.runs = 1 /\ status # "running") =>
    LET k == newVarIdx - prev.idx1
        st1 == prev.st
        st2 == TopSt
    IN
    /\ status = prev.status
    /\ failedOp = prev.failedOp
    /\ DOMAIN st2.regs = DOMAIN st1.regs
    /\ \A r \in DOMAIN st2.regs : st2.regs[r] = RenameVal(st1.regs[r], k)
    /\ st2.wd = st1.wd
    /\ st2.wdOf = st1.wdOf
    /\ st2.retValues =
         [i \in 1 .. Len(st1.retValues) |-> RenameVal(st1.retValues[i], k)]
    /\ m = prev.m
    /\ k = prev.idx1 - prev.idx0
    /\ k = Cardinality(InitResults(st2))
    /\ \A r1 \in InitResults(st2) :
         /\ \A r2 \in InitResults(st2) \ {r1} :
              FreshName(st2, r1) # FreshName(st2, r2)
         /\ \A r2 \in InitResults(st1) :
              FreshName(st2, r1) # FreshName(st1, r2)

\* C16 witness: the fusion example was encoded twice; the second encoding
\* took three more counter values and named its first init_tensor otherwise.
C16_Witness ==
  /\ prev.runs = 1
  /\ Done
  /\ fn.name = "fusion"
  /\ newVarIdx = prev.idx1 + 3
  /\ prev.idx1 = prev.idx0 + 3
  /\ TopSt.regs["I0"] # prev.st.regs["I0"]
  /\ TopSt.regs["R2"] = prev.st.regs["R2"]

\* The step encodes the op at the head of the innermost block and the
\* encoding goes on.
EncodedOp(kinds) ==
  /\ status = "running" /\ status' = "running"
  /\ HasOp(Cur)
  /\ OpAt(Cur).kind \in kinds
  /\ \E j \in Len(trace) + 1 .. Len(trace') :
        trace'[j].e = "enc" /\ trace'[j].op = OpAt(Cur).id

\* C17 -- writability is lowered monotonically: no step sets the writable
\* flag of a block back to true; alloc adds one writable block, buffer_cast
\* and clone add one read-only block, and no other op adds or removes a
\* block; clone and tensor_load leave their source block read-only.
C17_WritableMonotone ==
  [][LET adds == EncodedOp({"memref.alloc", "memref.buffer_cast",
                            "memref.clone"})
     IN
     /\ Len(m') = Len(m) + (IF adds THEN 1 ELSE 0)
     /\ \A b \in 1 .. Len(m) : m'[b].writable => m[b].writable
     /\ adds => (m'[Len(m')].writable <=> OpAt(Cur).kind = "memref.alloc")
     /\ EncodedOp({"memref.clone", "memref.tensor_load"}) =>
          ~m'[Cur.st.regs[OpAt(Cur).args[1]].bid].writable]_vars

\* C17 witness: a clone of a memref in a writable block was encoded; there
\* are two blocks now, both read-only.
C17_Witness ==
  /\ Done
  /\ fn.name = "buffer"
  /\ fn.blk[1].kind = "memref.clone"
  /\ fn.mem[1].writable
  /\ Len(m) = 2
  /\ ~m[1].writable /\ ~m[2].writable

ShapePairs(g) ==
  Concat([k \in 1 .. Len(g.args) |->
            [i \in 1 .. Len(Ty(g.args[k]).shape) |->
               [dim |-> stk[1].st.regs[g.args[k]].dims[i],
                f |-> g.maps[k].res[i]]]])

\* C19 -- loop-bound inference: the frame pushed for a generic op has one
\* bound per iterator, in iterator order; the bound of iterator k is d - 1
\* with d the dimension at the first position of ShapePairs whose map result
\* is the plain dim k, whatever the later matching positions hold; when all
\* operands have rank 0 there is the single bound 0.
C19_LoopBounds ==
  (status = "running" /\ Len(stk) = 2 /\ OuterOp.kind = "linalg.generic") =>
    LET g == OuterOp
        pairs == ShapePairs(g)
        ub == ScopeTop(Cur.st).ub
        first(k) == CHOOSE p \in 1 .. Len(pairs) :
                      /\ pairs[p].f = ADim(k)
                      /\ \A q \in 1 .. p - 1 : pairs[q].f # ADim(k)
    IN
    IF pairs = <<>> THEN ub = <<0>>
    ELSE /\ Len(ub) = Len(g.iters)
         /\ \A k \in 1 .. Len(ub) : ub[k] = BV(pairs[first(k - 1)].dim - 1)

\* C19 witness: %A has one element and %B, which matches the same iterator
\* later, has more; the bound is 0.
C19_Witness ==
  /\ status = "running" /\ Len(stk) = 2
  /\ fn.name = "shape"
  /\ OuterOp.maps[2] = IdMap(1)
  /\ fn.regs["A"].dims = <<1>>
  /\ fn.regs["B"].dims = <<MaxDim>>
  /\ ScopeTop(Cur.st).ub = <<0>>

RECURSIVE AffineAt(_, _)
\* The value of an affine expression of add, mul, dim and constants at the
\* point ub, in Index arithmetic.
AffineAt(ae, ub) ==
  IF ae.k = "add" THEN BV(AffineAt(ae.sub[1], ub) + AffineAt(ae.sub[2], ub))
  ELSE IF ae.k = "mul" THEN BV(AffineAt(ae.sub[1], ub) * AffineAt(ae.sub[2], ub))
  ELSE IF ae.k = "dim" THEN ub[ae.v + 1]
  ELSE BV(ae.v)
RECURSIVE AffineSupported(_)
AffineSupported(ae) ==
  \/ ae.k \in {"dim", "sym"}
  \/ ae.k = "const" /\ ae.v >= 0
  \/ ae.k \in {"add", "mul"} /\ AffineSupported(ae.sub[1])
                             /\ AffineSupported(ae.sub[2])

\* The generic op g of the function was reached and its loop body entered or
\* refused.
GenericReached ==
  /\ fn.blk[1].kind = "linalg.generic"
  /\ \E j \in DOMAIN trace : trace[j].e = "enc" /\ trace[j].op = fn.blk[1].id

\* C20 -- shape-match UB: once a generic op is encoded, its own UB condition
\* implies, for every operand dimension of size dim indexed by the map
\* result f, that dim = 0 or f(loop upper bounds) < dim (unsigned): an
\* operand dimension that is too small makes the op undefined and a
\* zero-sized one adds no obligation; a map result that is not built from
\* add, mul, dim, symbol and non-negative constants stops the encoding with
\* Unsupported at the generic op.
C20_ShapeMatchUB ==
  (fn.name = "shape" /\ GenericReached) =>
    LET g == fn.blk[1]
        pairs == ShapePairs(g)
        ub == IF pairs = <<>> THEN <<0>>
              ELSE <<BV(fn.regs["A"].dims[1] - 1)>>
        obligations ==
          \A p \in 1 .. Len(pairs) :
             pairs[p].dim # 0 => AffineAt(pairs[p].f, ub) < pairs[p].dim
    IN
    IF \E p \in 1 .. Len(pairs) : ~AffineSupported(pairs[p].f)
    THEN status = "unsupported" /\ failedOp = g.id
    ELSE /\ status \in {"running", "done"}
         /\ isOpWellDefined(stk[1].st, g.id)[<<>>] => obligations
         /\ Len(stk) = 2 => (isOpWellDefined(stk[1].st, g.id)[<<>>] <=> obligations)
         /\ ~obligations => ~stk[1].st.wd[<<>>]
         /\ (obligations /\ Done) => stk[1].st.wd[<<>>]

\* C20 witness: %B is indexed by i + 1 and is too small for the last
\* iteration, so the op is undefined; the encoding went on to the end.
C20_Witness ==
  /\ Done
  /\ fn.name = "shape"
  /\ fn.blk[1].maps[2] = AMap(1, <<AAdd(ADim(0), AConst(1))>>)
  /\ fn.regs["A"].dims = <<MaxDim>>
  /\ fn.regs["B"].dims = <<MaxDim>>
  /\ ~TopSt.wd[<<>>]

\* The generic op of the programs "par" and "shape" once the whole function
\* is encoded, with the bounds of its loops.
ParDone == Done /\ fn.name = "par"
ParUb == <<BV(fn.regs["A"].dims[1] - 1), BV(fn.regs["A"].dims[2] - 1)>>
\* What the body of "par" yields for result i at the iteration iter.
ParYield(i, iter) ==
  IF i = 1 THEN fp_mul(fn.regs["A"].f[iter], fn.regs["A"].f[iter])
  ELSE fn.regs["A"].f[iter]

\* C21 -- parallel case: with a permutation as output map, every result R of
\* linalg.generic has dim j equal to bound[outMap_j] + 1 and holds, at the
\* index outMap(iter), what the body yields at the iteration iter, for every
\* iteration within the bounds; under (i, j) -> (j, i) the value of iteration
\* (i, j) is at index (j, i); with rank-0 operands only, the result has the
\* single dim 1.
C21_ParallelOutputs ==
  /\ ParDone =>
       LET g == fn.blk[1]
           outMap == g.maps[Len(g.maps)]
           at(x) == [j \in 1 .. 2 |-> x[outMap.res[j].v + 1]]
       IN \A i \in 1 .. Len(g.res) :
            LET Rt == TopSt.regs[g.res[i]] IN
            /\ Rt.tag = "Tensor"
            /\ Rt.dims = [j \in 1 .. 2 |-> BV(at(ParUb)[j] + 1)]
            /\ \A iter \in Vals(2) :
                 (\A k \in 1 .. 2 : iter[k] <= ParUb[k]) =>
                   Rt.f[at(iter)] = ParYield(i, iter)
  /\ (Done /\ fn.name = "shape" /\ fn.blk[1].iters = <<>>) =>
       /\ TopSt.regs["C"].dims = <<1>>
       /\ TopSt.regs["C"].f[<<0>>] =
            fp_add(fn.regs["A"].f[<<0>>], fn.regs["B"].f[<<0>>])

\* C21 witness: a 1 x MaxDim tensor under the transposition; the result is
\* MaxDim x 1 and its element (1, 0) is the one computed at iteration (0, 1).
C21_Witness ==
  /\ ParDone
  /\ fn.blk[1].maps = <<IdMap(2), AMap(2, <<ADim(1), ADim(0)>>)>>
  /\ fn.regs["A"].dims = <<1, MaxDim>>
  /\ TopSt.regs["R1"].dims = <<MaxDim, 1>>
  /\ TopSt.regs["R1"].f[<<1, 0>>] = ParYield(1, <<0, 1>>)
  /\ TopSt.regs["R1"].f[<<1, 0>>] # ParYield(1, <<1, 0>>)

\* The program "bound" once the whole function is encoded: the body of its
\* generic op is well defined at the iteration iter iff iter is an index of %E.
BoundDone == Done /\ fn.name = "bound"
BoundUb == BV(fn.regs["A"].dims[1] - 1)
BoundWelldef(iter) == iter[1] < fn.regs["E"].dims[1]

SimpleReduction(g) ==
  LET body == g.body
      n == Len(body)
      acc == g.bargs[Len(g.bargs)]
      outMap == g.maps[Len(g.maps)]
      reads(op, id) == \E i \in 1 .. Len(op.args) : op.args[i] = id
  IN /\ Len(g.args) - g.nin = 1
     /\ n >= 2
     /\ body[n - 1].kind \in {"arith.addf", "arith.addi"}
     /\ reads(body[n - 1], acc)
     /\ body[n].kind = "linalg.yield"
     /\ body[n].args = body[n - 1].res
     /\ \A k \in 1 .. n - 2 : ~reads(body[k], acc)
     /\ \/ \A j \in 1 .. Len(outMap.res) : outMap.res[j].k = "dim"
        \/ \A j \in 1 .. Len(outMap.res) : outMap.res[j] = AConst(0)

\* C23 -- reduction pattern: a generic whose output map is not a permutation
\* is encoded only in the reduction form.  In every other case (another
\* operator, the accumulator read by an earlier op, a yield of something
\* else, several outputs, an output-map result that is neither a dimension
\* nor part of an all-zero map) no result of the op is ever bound, and once
\* the op is left the encoding has stopped with Unsupported at the op.
C23_ReductionPattern ==
  (fn.name \in {"reduce", "reduce2"} /\ ~SimpleReduction(fn.blk[1])) =>
    /\ \A i \in 1 .. Len(fn.blk[1].res) : ~IsBound(TopSt, fn.blk[1].res[i])
    /\ status # "done"
    /\ (GenericReached /\ Len(stk) = 1) =>
         (status = "unsupported" /\ failedOp = fn.blk[1].id)

\* C23 witness: the body was encoded to its end and the output map
\* (i, j) -> (i, 0) refused after it; the result is not bound.
C23_Witness ==
  /\ fn.name = "reduce2"
  /\ fn.blk[1].maps[2] = AMap(2, <<ADim(0), AConst(0)>>)
  /\ \E k \in DOMAIN trace : trace[k].blk = "g" /\ trace[k].e = "pre" /\ trace[k].skip
  /\ status = "unsupported" /\ failedOp = "g"
  /\ ~IsBound(TopSt, "R")

RECURSIVE SliceKept(_, _, _, _)
\* The source axes a slice keeps, from source axis i and result axis j on:
\* an axis is kept when the result type has its size next, dropped otherwise.
SliceKept(szs, res, i, j) ==
  IF i > Len(szs) THEN <<>>
  ELSE IF j <= Len(res) /\ szs[i] = res[j]
  THEN <<i>> \o SliceKept(szs, res, i + 1, j + 1)
  ELSE SliceKept(szs, res, i + 1, j)

\* The extract_slice of the program "extract" with its parameters.
ExtractOp == fn.blk[1]
ExtractParam(q) == [i \in 1 .. Len(ExtractOp.mixed[q]) |-> ExtractOp.mixed[q][i].c]
ExtractKept == SliceKept(ExtractParam(2), fn.ty["T"].shape, 1, 1)

\* C24 -- extract_slice index mapping: the result dims are the sizes of the
\* kept axes in order, and the result element at an in-bounds index o is the
\* source element at offsets[i] + o_j * strides[i] on each kept source axis i
\* (j its position among the kept axes) and at offsets[i] on each dropped
\* axis; only the axes absent from the result type are dropped, so a size-1
\* axis the result type keeps consumes its own output index; a number of
\* offsets, sizes or strides different from the source rank raises
\* Unsupported.
C24_ExtractSliceIndex ==
  (fn.name = "extract" /\ status # "running") =>
    LET offs == ExtractParam(1)
        szs == ExtractParam(2)
        strs == ExtractParam(3)
        kept == ExtractKept
        srcIdx(o) ==
          [i \in 1 .. Len(szs) |->
             IF \E j \in 1 .. Len(kept) : kept[j] = i
             THEN BV(offs[i]
                     + o[CHOOSE j \in 1 .. Len(kept) : kept[j] = i] * strs[i])
             ELSE offs[i]]
    IN
    IF Len(szs) # Len(fn.ty["A"].shape)
    THEN status = "unsupported" /\ failedOp = "o1"
    ELSE /\ Done
         /\ TopSt.regs["T"].dims = [j \in 1 .. Len(kept) |-> szs[kept[j]]]
         /\ \A o \in InBoundsIdx(TopSt.regs["T"]) :
              TopSt.regs["T"].f[o] = fn.regs["A"].f[srcIdx(o)]

\* The parameters of the program "insslice", and whether the slice holds
\* the output index x: x is at or after the offset, a whole number of strides
\* from it, and fewer than size strides away.
InsOff == fn.regs["o"].f[<<>>]
InsSize == fn.regs["z"].f[<<>>]
InsStride == fn.regs["t"].f[<<>>]
InsSelected(x) ==
  /\ InsOff <= x[1]
  /\ (x[1] - InsOff) % InsStride = 0
  /\ (x[1] - InsOff) \div InsStride < InsSize
InsSrcIdx(x) == <<(x[1] - InsOff) \div InsStride>>

\* C25 -- insert_slice selection: the result has the dims of dst; its
\* element at every index x is src[(x - offsets) / strides] when x is in the
\* slice and dst[x] otherwise, also for x below the offset, where x - offset
\* wraps; the op is well defined iff src is in bounds at the source index
\* for every x in the slice at which dst is in bounds; src, dst and result
\* of unequal ranks raise Unsupported.
C25_InsertSliceSelect ==
  (fn.name = "insslice" /\ status # "running") =>
    IF Len(fn.ty["D"].shape) # 1
    THEN status = "unsupported" /\ failedOp = "o1"
    ELSE /\ Done
         /\ TopSt.regs["R"].dims = fn.regs["D"].dims
         /\ \A x \in Vals(1) :
              TopSt.regs["R"].f[x] =
                IF InsSelected(x) THEN fn.regs["A"].f[InsSrcIdx(x)]
                ELSE fn.regs["D"].f[x]
         /\ TopSt.wd[<<>>] <=>
              \A x \in Vals(1) :
                 (TensorInBounds(fn.regs["D"], x) /\ InsSelected(x)) =>
                   TensorInBounds(fn.regs["A"], InsSrcIdx(x))

\* C26 -- tensor_store through a strided layout: once the store of %A into
\* %M is encoded, the block of %M holds the element of %A at the address of
\* every index in bounds of both, whatever it held before, and the op is
\* well defined iff the dims of %A and %M are equal (the block is writable
\* and holds all of %M, so the write itself succeeds).
C26_StoreThroughLayout ==
  (Done /\ fn.name = "strided") =>
    LET stride == fn.ty["M"].layout[1]
        sameDims == fn.regs["A"].dims = fn.regs["M"].dims
    IN /\ TopSt.wd[<<>>] <=> sameDims
       /\ sameDims =>
            \A i \in 0 .. fn.regs["M"].dims[1] - 1 :
               m[1].arr[i * stride] = fn.regs["A"].f[<<i>>]

\* The program "dense": its constant op, the dims of its attribute, and the
\* index tuples the enumeration loop of elemAttrToTensor visits.
DenseOp == fn.blk[1]
DenseDims == fn.ty["T"].shape
DenseLoop ==
  denseIndices(DenseDims, Zeros(Len(DenseDims)), <<>>, DenseFuel)
\* a comes before b in lexicographic order, the first axis most significant.
DenseLexLess(a, b) ==
  \E i \in 1 .. Len(a) :
    /\ a[i] < b[i]
    /\ \A j \in 1 .. i - 1 : a[j] = b[j]
\* The value the attribute of "dense" holds at the index tuple x.
DenseAttrAt(x) ==
  LET n == Len(DenseDims)
      RECURSIVE pos(_)
      pos(i) == IF i = 0 THEN 0 ELSE pos(i - 1) * DenseDims[i] + x[i]
  IN DenseOp.ints[pos(n) + 1]

\* C27 -- dense constants that are not splats expand in row-major order:
\* for every static shape of rank >= 1 with all dims >= 1 the enumeration
\* loop terminates, emits the product of the dims elements and visits every
\* index tuple once, in lexicographic order with the last axis fastest, so
\* the element of the result at each index tuple is the attribute's value
\* at that tuple; integer elements wider than 64 bits raise Unsupported.
C27_DenseRowMajor ==
  (fn.name = "dense" /\ Len(DenseOp.ints) > 1) =>
    LET v == DenseLoop.visited
        ety == fn.ty["T"].ety
    IN
    /\ DenseLoop.ok
    /\ Len(v) = Prod(DenseDims)
    /\ \A k \in 1 .. Len(v) :
         \A i \in 1 .. Len(DenseDims) : 0 <= v[k][i] /\ v[k][i] < DenseDims[i]
    /\ \A k \in 1 .. Len(v) - 1 : DenseLexLess(v[k], v[k + 1])
    /\ status # "running" =>
         IF ety = "i128"
         THEN status = "unsupported" /\ ~("T" \in DOMAIN TopSt.regs)
         ELSE /\ Done
              /\ TopSt.regs["T"].dims = DenseDims
              /\ \A x \in InBoundsIdx(TopSt.regs["T"]) :
                   TopSt.regs["T"].f[x] =
                     IF ety = "f32" THEN "cst" \o ToString(DenseAttrAt(x))
                     ELSE DenseAttrAt(x)

\* A rank-3 attribute whose enumeration carries from the last axis into the
\* first one has been expanded.
C27_Witness ==
  /\ fn.name = "dense"
  /\ DenseDims = <<2, 1, 2>>
  /\ fn.ty["T"].ety = "f32"
  /\ Len(DenseOp.ints) > 1
  /\ Done
  /\ TopSt.regs["T"].f[<<1, 0, 1>>] = "cst4"

\* The value the body of a "redinit" program adds to the accumulator at the
\* iteration v when that value is the input element or its square.
RedInitTerm(v) ==
  IF FnOp("g").body[1].kind = "arith.mulf"
  THEN fp_mul(ArgElem("A", v), ArgElem("A", v))
  ELSE ArgElem("A", v)

\* C28 -- in the reduction case the result of linalg.generic depends only on
\* the values added to the accumulator, never on the initial contents of the
\* output operand: whatever the elements of %O are, the result is the sum
\* of the body's values computed from the input alone and the function is
\* well defined, so two encodings that differ only in the elements of %O
\* have the same result tensor and the same UB condition.
C28_AccumulatorInitIgnored ==
  (fn.name = "redinit" /\ status # "running") =>
    LET g == FnOp("g")
        dims == fn.regs["A"].dims
        res == TopSt.regs["R"]
    IN
    /\ Done
    /\ TopSt.wd[<<>>]
    /\ IF g.maps[2].res[1].k = "dim" THEN
         /\ res.dims = <<dims[1]>>
         /\ \A p \in 0 .. dims[1] - 1 :
              res.f[<<p>>] =
                fp_sum([r \in 1 .. dims[2] |-> RedInitTerm(<<p, r - 1>>)])
       ELSE
         /\ res.dims = <<1>>
         /\ res.f[<<0>>] =
              fp_sum([k \in 1 .. Prod(dims) |-> RedInitTerm(RowMajor(dims)[k])])

\* The program "multi": its generic op, the dims minus one of its input and
\* what its body yields for result i at the iteration iter.
MultiOp == fn.blk[1]
MultiUb == <<BV(fn.regs["A"].dims[1] - 1), BV(fn.regs["A"].dims[2] - 1)>>
MultiYield(i, iter) ==
  IF i = 1 THEN fp_mul(fn.regs["A"].f[iter], fn.regs["A"].f[iter])
  ELSE fn.regs["A"].f[iter]

\* C29 -- a linalg.generic with several outputs is encoded after its last
\* indexing map only.  When the last map is a permutation the op is encoded
\* in the parallel form whatever the maps of the other outputs are, there
\* are as many results as yielded values, and every result, the one of an
\* output with another map included, has the dims and the index placement
\* the last map gives; when the last map is not a permutation the op is
\* taken for a reduction and, having several outputs, raises Unsupported.
C29_LastMapOnly ==
  (fn.name = "multi" /\ status # "running") =>
    LET g == MultiOp
        last == g.maps[Len(g.maps)]
        at(x) == [j \in 1 .. 2 |-> x[last.res[j].v + 1]]
        yielded == g.body[Len(g.body)].args
    IN
    IF isPermutation(last) THEN
      /\ Done
      /\ Len(yielded) = Cardinality({i \in 1 .. Len(g.res) : IsBound(TopSt, g.res[i])})
      /\ \A i \in 1 .. Len(g.res) :
           LET Rt == TopSt.regs[g.res[i]] IN
           /\ Rt.dims = [j \in 1 .. 2 |-> BV(at(MultiUb)[j] + 1)]
           /\ Rt.dims = TopSt.regs[g.res[1]].dims
           /\ \A iter \in Vals(2) :
                (\A k \in 1 .. 2 : iter[k] <= MultiUb[k]) =>
                  Rt.f[at(iter)] = MultiYield(i, iter)
    ELSE
      /\ status = "unsupported"
      /\ failedOp = "g"
      /\ \A i \in 1 .. Len(g.res) : ~IsBound(TopSt, g.res[i])

\* C29 witness: the first output has the map (i, j) -> (i) and the last one
\* the transposition; the first result is the transposed square of %A, of
\* rank 2, although its output operand has rank 1.
C29_Witness ==
  /\ fn.name = "multi"
  /\ Done
  /\ Len(MultiOp.maps[2].res) = 1
  /\ MultiOp.maps[3].res[1].v = 1
  /\ fn.regs["A"].dims[1] = 1
  /\ fn.regs["A"].dims[2] = MaxDim
  /\ Len(fn.regs["O1"].dims) = 1
  /\ TopSt.regs["R1"].dims = <<MaxDim, 1>>
  /\ TopSt.regs["R1"].f[<<1, 0>>] = MultiYield(1, <<0, 1>>)

\* The step that encodes a tensor.extract_slice without an exception.
ExtractSliceStep ==
  /\ Ready("tensor.extract_slice")
  /\ status' = "running"
  /\ Len(stk') = Len(stk)
  /\ stk'[Len(stk)].index = OpIndex(Cur)

\* C30 -- encoding tensor.extract_slice leaves wellDefinedPred unchanged
\* whatever the offsets, sizes and strides are, a slice that reaches past
\* the dims of the source included: the State after a successful encoding is
\* the State before it with the result bound, and the Memory, the returned
\* values, the scopes and the well-definedness of every op are the same.
C30_ExtractSliceFrame ==
  [][ExtractSliceStep =>
       LET s == Cur.st
           t == stk'[Len(stk)].st
           res == OpAt(Cur).res[1]
       IN /\ t.wd = s.wd
          /\ t.wdOf = s.wdOf
          /\ ~(OpAt(Cur).id \in DOMAIN t.wdOf)
          /\ m' = m
          /\ t = [s EXCEPT !.regs = t.regs]
          /\ DOMAIN t.regs = DOMAIN s.regs \cup {res}
          /\ ~(res \in DOMAIN s.regs)
          /\ \A r \in DOMAIN s.regs : t.regs[r] = s.regs[r]
          /\ SubSeq(stk', 1, Len(stk) - 1) = SubSeq(stk, 1, Len(stk) - 1)]_vars

\* C30 witness: the slice of a MaxDim x MaxDim tensor at offset 1 with
\* stride 2 and MaxDim elements per axis reaches past the source on both
\* axes; it is bound and the function is still well defined.
C30_Witness ==
  /\ fn.name = "extract"
  /\ Done
  /\ ExtractParam(1) = <<1, 1>>
  /\ ExtractParam(2) = <<MaxDim, MaxDim>>
  /\ ExtractParam(3) = <<2, 2>>
  /\ 1 + (MaxDim - 1) * 2 >= fn.regs["A"].dims[1]
  /\ IsBound(TopSt, "T")
  /\ TopSt.wd[<<>>]
  /\ TopSt.wdOf = <<>>

====
